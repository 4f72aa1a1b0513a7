--------------------------- MODULE SegmentLogProofs ---------------------------
(***************************************************************************)
(* Proofs about the log of one thread, for any set of keys, any number of  *)
(* chunks, any batch and any length of a segment; the last part proves     *)
(* that it implements DurableLog.                                          *)
(***************************************************************************)
EXTENDS SegmentLog, FiniteSetTheorems, TLAPS

(* A finite set of numbers has a highest one: of the sets of those above   *)
(* one of its elements, a minimal one is empty.                            *)
LEMMA HighestOf ==
  ASSUME NEW S \in SUBSET Int, IsFiniteSet(S), S # {}
  PROVE  Highest(S) \in S /\ \A y \in S : y <= Highest(S)
  <1> DEFINE Above(x) == {y \in S : y > x}
             T == {Above(x) : x \in S}
  <1>1. T \subseteq FiniteSubsetsOf(S) /\ T # {}
    <2>1. \A x \in S : Above(x) \in SUBSET S
      OBVIOUS
    <2>2. \A x \in S : IsFiniteSet(Above(x))
      BY <2>1, FS_Subset
    <2> QED BY <2>1, <2>2 DEF FiniteSubsetsOf
  <1>2. PICK m \in T : \A y \in T : ~ (<<y, m>> \in StrictSubsetOrdering(S))
    BY <1>1, FS_StrictSubsetOrderingWellFounded, WFMin
  <1>3. PICK x \in S : m = Above(x)
    BY <1>2
  <1>4. \A y \in S : y <= x
    <2> SUFFICES ASSUME NEW y \in S, y > x PROVE FALSE
      BY <1>3
    <2>1. (\A z \in S : z > y => z > x) /\ ~ (y > y)
      BY SMT
    <2>2. Above(y) \subseteq Above(x) /\ y \in Above(x) /\ y \notin Above(y)
      BY <2>1
    <2>3. <<Above(y), m>> \in StrictSubsetOrdering(S)
      BY <1>3, <2>2 DEF StrictSubsetOrdering
    <2> QED BY <1>2, <2>3
  <1> QED BY <1>4 DEF Highest

LEMMA ChunksAreFinite == IsFiniteSet(Chunk)
  BY FS_Interval, PoolAssumption DEF Chunk

USE DEF Kind, ValueLen

LEMMA InitType == Init => TypeOK /\ TailInv
  <1> SUFFICES ASSUME Init PROVE TypeOK /\ TailInv
    OBVIOUS
  <1> USE PoolAssumption DEF Init
  <1>1. /\ block_type \in [Chunk -> Kind \cup {"none"}]
        /\ block_id \in [Chunk -> Nat] /\ bitmap \in [Chunk -> Nat]
    BY DEF Chunk
  <1>2. /\ version \in [Chunk -> [Slot -> {0, ValueLen}]]
        /\ entry_key \in [Chunk -> [Slot -> Key \cup {Blank}]]
    OBVIOUS
  <1>3. list \in [Kind -> [Id -> Chunk \cup {NoChunk}]]
    BY DEF Chunk, Id
  <1>4. /\ page_id \in [Kind -> Nat] /\ decision_id \in [Kind -> Nat]
        /\ end_address \in 0 .. PoolChunks /\ temp_offset \in 0 .. Slots - 1
        /\ pos \in 0 .. Slots - 1
    OBVIOUS
  <1>5. place \in [Key -> Chunk \X Slot]
    BY DEF Chunk, Slot
  <1>6. \A c \in Chunk : version[c][Slots - 1] = 0
    BY DEF Slot
  <1> QED BY <1>1, <1>2, <1>3, <1>4, <1>5, <1>6 DEF TypeOK, TailInv, PC, Calling

LEMMA FiledType ==
  ASSUME TypeOK
  PROVE  Filed \in Chunk \cup {NoChunk}
  BY DEF TypeOK, Filed

LEMMA RecoveredIds ==
  ASSUME TypeOK, NEW k \in Kind
  PROVE  /\ Highest({decision_id[k]} \cup {block_id[c] : c \in Used(k)}) \in Nat
         /\ \A i \in {decision_id[k]} \cup {block_id[c] : c \in Used(k)} :
               i <= Highest({decision_id[k]} \cup {block_id[c] : c \in Used(k)})
  <1> DEFINE ids == {block_id[c] : c \in Used(k)}
             f == [c \in Used(k) |-> block_id[c]]
  <1>1. Used(k) \subseteq Chunk /\ IsFiniteSet(Used(k))
    BY ChunksAreFinite, FS_Subset DEF Used
  <1>2. f \in Surjection(Used(k), ids)
    BY DEF Surjection
  <1>3. IsFiniteSet(ids)
    BY <1>1, <1>2, FS_Surjection
  <1>4. IsFiniteSet(ids \cup {decision_id[k]})
    BY <1>3, FS_AddElement
  <1>5. ids \cup {decision_id[k]} \in SUBSET Nat
    BY <1>1 DEF TypeOK
  <1>6. {decision_id[k]} \cup ids = ids \cup {decision_id[k]}
    OBVIOUS
  <1> DEFINE all == {decision_id[k]} \cup ids
  <1>7. all \in SUBSET Int /\ all \in SUBSET Nat /\ IsFiniteSet(all) /\ all # {}
    BY <1>4, <1>5, <1>6
  <1> HIDE DEF all
  <1>8. Highest(all) \in all /\ \A i \in all : i <= Highest(all)
    BY <1>7, HighestOf
  <1>9. Highest(all) \in Nat
    BY <1>7, <1>8
  <1> QED BY <1>8, <1>9 DEF all

LEMMA TypeStep ==
  ASSUME TypeOK, TailInv, [Next]_vars
  PROVE  TypeOK' /\ TailInv'
  <1> USE PoolAssumption
  <1>0. NoChunk \notin Chunk
    BY DEF Chunk
  <1>1. ASSUME NEW k \in Key, Insert(k) PROVE TypeOK' /\ TailInv'
    BY <1>1 DEF Insert, TypeOK, TailInv, PC, Calling, headers, entries, alloc, seg, rec
  <1>2. ASSUME NEW k \in Key, Update(k) PROVE TypeOK' /\ TailInv'
    BY <1>2, SMTT(30) DEF Update, TypeOK, TailInv, PC, Calling, headers, entries, alloc, seg, rec
  <1>4. CASE Append
    BY <1>4 DEF Append, SegmentFull, EntrySize, TypeOK, TailInv, PC, Calling,
                headers, entries, alloc, seg, rec, ghost
  <1>5. CASE PutVersion
    BY <1>5, <1>0, SMTT(30) DEF PutVersion, TypeOK, TailInv, PC, Calling, Slot,
                headers, alloc, seg, local, rec, ghost
  <1>6. CASE PutKey
    <2>1. /\ log_vec \in Chunk /\ temp_offset \in Slot /\ temp_offset < Slots - 1
          /\ key \in called
      BY <1>6, <1>0 DEF PutKey, TypeOK, TailInv, Calling, Slot
    <2>2. entry_key' \in [Chunk -> [Slot -> Key \cup {Blank}]]
      BY <1>6, <2>1 DEF PutKey, TypeOK
    <2>3. place' \in [Key -> Chunk \X Slot] /\ acked' \subseteq called
      BY <1>6, <2>1 DEF PutKey, TypeOK
    <2>4. temp_offset' \in 0 .. Slots - 1
      BY <1>6, <2>1 DEF PutKey, Slot
    <2>5. /\ UNCHANGED <<headers, version, alloc, log_vec, local, rec, called, disturbed>>
          /\ pc' = "idle"
      BY <1>6 DEF PutKey
    <2> QED BY <2>2, <2>3, <2>4, <2>5 DEF TypeOK, TailInv, PC, Calling,
               headers, alloc, local, rec
  <1>7. CASE GetMoreChunk
    <2> DEFINE new == end_address .. end_address + Batch - 1
    <2>1. /\ end_address \in Nat /\ end_address + Batch <= PoolChunks
          /\ new \subseteq Chunk
      BY <1>7 DEF GetMoreChunk, TypeOK, Chunk
    <2>2. /\ bitmap' \in [Chunk -> Nat] /\ block_type' \in [Chunk -> Kind \cup {"none"}]
          /\ page_id' \in [Kind -> Nat] /\ end_address' \in 0 .. PoolChunks
      BY <1>7, <2>1 DEF GetMoreChunk, TypeOK
    <2>3. block_id' \in [Chunk -> Nat]
      <3>1. \A c \in new : page_id[want] + c - end_address \in Nat
        BY <2>1 DEF TypeOK
      <3> QED BY <1>7, <3>1 DEF GetMoreChunk, TypeOK
    <2>4. list' \in [Kind -> [Id -> Chunk \cup {NoChunk}]]
      <3>1. \A i \in Id : i - page_id[want] \in 0 .. Batch - 1
               => end_address + i - page_id[want] \in Chunk
        <4> TAKE i \in Id
        <4>1. page_id[want] \in Nat /\ i \in Nat
          BY DEF TypeOK, Id
        <4> QED BY <2>1, <4>1 DEF Chunk
      <3> QED BY <1>7, <3>1 DEF GetMoreChunk, TypeOK
    <2>5. /\ UNCHANGED <<entries, decision_id, seg, local, place, rec, ghost>>
          /\ pc = "get_free_block" /\ pc' = "grown"
      BY <1>7 DEF GetMoreChunk
    <2> QED BY <2>2, <2>3, <2>4, <2>5 DEF TypeOK, TailInv, PC, Calling,
               entries, seg, local, rec, ghost
  <1>8. CASE OutOfPool
    BY <1>8 DEF OutOfPool, TypeOK, TailInv, PC, Calling,
                headers, entries, alloc, seg, local, rec, ghost
  <1>9. CASE TakeSegment
    BY <1>9, FiledType DEF TakeSegment, TypeOK, TailInv, PC, Calling, InUse,
                entries, local, rec, ghost
  <1>10. CASE TakeLeafChunk
    BY <1>10, FiledType DEF TakeLeafChunk, TypeOK, TailInv, PC, Calling,
                entries, alloc, seg, local, rec, ghost
  <1>11. CASE AllocLeaf
    <2> DEFINE c == IF decision_id["node"] \in Id
                    THEN list["node"][decision_id["node"]] ELSE NoChunk
    <2>1. c \in Chunk \cup {NoChunk}
      BY DEF TypeOK
    <2>2. /\ bitmap' \in [Chunk -> Nat] /\ decision_id' \in [Kind -> Nat]
          /\ want' \in Kind /\ pc' \in {pc, "undefined", "get_free_block"}
          /\ pc \in {"idle", "replay"}
          /\ pc' = "get_free_block" => want' = "node"
      BY <1>11, <2>1 DEF AllocLeaf, TypeOK
    <2>3. UNCHANGED <<block_type, block_id, entries, list, page_id, end_address,
                      seg, key, len, place, rec, ghost>>
      BY <1>11 DEF AllocLeaf
    <2>4. ~Calling' /\ pc' \in PC
      BY <2>2 DEF Calling, TypeOK, PC
    <2>5. /\ UNCHANGED <<block_type, block_id, version, entry_key, list, page_id,
                         end_address, log_vec, temp_offset, key, len, place>>
          /\ UNCHANGED <<reading, pos, unread, replayed, called, acked, disturbed>>
      BY <2>3 DEF entries, seg, rec, ghost
    <2>7. TypeOK'
      BY <2>2, <2>4, <2>5 DEF TypeOK
    <2>6. TailInv'
      BY <2>2, <2>3 DEF TailInv, entries, seg
    <2> QED BY <2>6, <2>7
  <1>3. ASSUME NEW k \in Key, Remove(k) PROVE TypeOK' /\ TailInv'
    <2> DEFINE c == place[k][1]
               s == place[k][2] - 2
               d == IF s >= Slots - TailSlots THEN c + 1 ELSE c
    <2>1. c \in Chunk
      BY DEF TypeOK
    <2>2. entry_key' \in [Chunk -> [Slot -> Key \cup {Blank}]]
      BY <1>3, <2>1 DEF Remove, TypeOK
    <2>3. /\ list' \in [Kind -> [Id -> Chunk \cup {NoChunk}]]
          /\ block_id' \in [Chunk -> Nat] /\ bitmap' \in [Chunk -> Nat]
          /\ page_id' \in [Kind -> Nat] /\ pc' \in {pc, "undefined"}
      <3>1. CASE d \notin Chunk
        BY <1>3, <3>1 DEF Remove, TypeOK
      <3>2. CASE d \in Chunk
        <4>1. /\ list' = [list EXCEPT !["log"] =
                    [i \in Id |-> IF i = page_id["log"] THEN d
                                  ELSE IF i = block_id[d] THEN NoChunk ELSE @[i]]]
              /\ block_id' = [block_id EXCEPT ![d] = page_id["log"]]
              /\ bitmap' = [bitmap EXCEPT ![d] = 0]
              /\ page_id' = [page_id EXCEPT !["log"] = @ + 1]
              /\ pc' = pc
          BY <1>3, <3>2 DEF Remove
        <4> HIDE DEF d
        <4> QED BY <3>2, <4>1 DEF TypeOK
      <3> QED BY <3>1, <3>2
    <2>4. /\ UNCHANGED <<block_type, version, decision_id, end_address, seg, local,
                         place, rec, called>>
          /\ acked' = acked \ {k} /\ disturbed' = disturbed + 1 /\ pc = "idle"
      BY <1>3 DEF Remove
    <2> QED BY <2>2, <2>3, <2>4 DEF TypeOK, TailInv, PC, Calling, seg, local, rec
  <1>12. CASE Crash
    <2>1. /\ list' \in [Kind -> [Id -> Chunk \cup {NoChunk}]]
          /\ page_id' \in [Kind -> Nat] /\ decision_id' \in [Kind -> Nat]
      BY <1>12 DEF Crash
    <2>2. place' \in [Key -> Chunk \X Slot]
      BY <1>12 DEF Crash, Chunk, Slot
    <2> QED BY <1>12, <2>1, <2>2 DEF Crash, TypeOK, TailInv, PC, Calling,
               headers, entries, ghost
  <1>13. CASE IgnoreRecover
    <2>1. list' \in [Kind -> [Id -> Chunk \cup {NoChunk}]]
      <3>1. \A k \in Kind, i \in Id :
               LET S == {c \in Used(k) : block_id[c] = i}
               IN  (IF S = {} THEN NoChunk ELSE Highest(S)) \in Chunk \cup {NoChunk}
        <4> TAKE k \in Kind, i \in Id
        <4> DEFINE S == {c \in Used(k) : block_id[c] = i}
        <4>1. S \in SUBSET Chunk /\ S \in SUBSET Int
          BY DEF Used, Chunk
        <4>2. IsFiniteSet(S)
          BY <4>1, ChunksAreFinite, FS_Subset
        <4>3. S # {} => Highest(S) \in S
          BY <4>1, <4>2, HighestOf
        <4> QED BY <4>1, <4>3
      <3> QED BY <1>13, <3>1 DEF IgnoreRecover
    <2>2. page_id' \in [Kind -> Nat]
      <3>1. \A k \in Kind : Cardinality(Used(k)) \in Nat
        BY ChunksAreFinite, FS_Subset, FS_CardinalityType DEF Used
      <3> QED BY <1>13, <3>1 DEF IgnoreRecover
    <2>3. decision_id' \in [Kind -> Nat]
      <3>1. \A k \in Kind :
               Highest({decision_id[k]} \cup {block_id[c] : c \in Used(k)}) \in Nat
        BY RecoveredIds
      <3> QED BY <1>13, <3>1 DEF IgnoreRecover
    <2>4. /\ unread' \subseteq Chunk /\ pc' = "replay"
          /\ UNCHANGED <<headers, entries, end_address, seg, local, place, reading,
                         pos, replayed, ghost>>
      BY <1>13 DEF IgnoreRecover
    <2> QED BY <2>1, <2>2, <2>3, <2>4, SMTT(30) DEF TypeOK, TailInv, PC, Calling,
               headers, entries, seg, local, ghost
  <1>14. CASE OpenSegment
    BY <1>14 DEF OpenSegment, TypeOK, TailInv, PC, Calling,
                headers, entries, alloc, seg, local, ghost
  <1>15. CASE ReplayEntry
    BY <1>15, SMTT(30) DEF ReplayEntry, TypeOK, TailInv, PC, Calling, Slot,
                headers, entries, alloc, seg, local, ghost
  <1>16. CASE FinishReplay
    BY <1>16 DEF FinishReplay, TypeOK, TailInv, PC, Calling,
                headers, entries, alloc, seg, local, rec, ghost
  <1>17. CASE UNCHANGED vars
    BY <1>17 DEF vars, TypeOK, TailInv, PC, Calling, headers, entries, alloc, seg,
                 local, rec, ghost
  <1> QED BY <1>1, <1>2, <1>3, <1>4, <1>5, <1>6, <1>7, <1>8, <1>9, <1>10, <1>11,
             <1>12, <1>13, <1>14, <1>15, <1>16, <1>17 DEF Next, Stopped

----------------------------------------------------------------------------
(* A run without removals and updates.                                     *)

LEMMA UsedLog ==
  \A c : c \in Used("log") <=> c \in Chunk /\ block_type[c] # "node" /\ bitmap[c] = InUse
  BY DEF Used

LEMMA RecordsAre ==
  ASSUME TypeOK, NEW k \in Key \cup {Blank}
  PROVE  k \in Records <=> \E c \in Used("log") : \E s \in Slot :
                              Counts(c, s) /\ entry_key[c][s] = k
  BY DEF Records

(* What is in memory depends on the entries and the segments in use.       *)
LEMMA MemoryFrame ==
  ASSUME MemoryInv, UNCHANGED <<version, entry_key, acked>>,
         Used("log")' = Used("log"),
         \A c \in Used("log") : block_id'[c] = block_id[c]
  PROVE  MemoryInv'
  <1>1. Records' = Records /\ \A c, s : Counts(c, s)' = Counts(c, s)
    BY DEF Records, Counts
  <1> QED BY <1>1 DEF MemoryInv

LEMMA MemoryUnchanged ==
  ASSUME MemoryInv, UNCHANGED <<headers, entries, acked>>
  PROVE  MemoryInv'
  <1>1. Used("log")' = Used("log")
    BY DEF Used, headers
  <1> QED BY <1>1, MemoryFrame DEF headers, entries

(* The steps that leave chunks and lists as they are.                      *)
LEMMA FrameStep ==
  ASSUME TypeOK, CalmInv, UNCHANGED <<headers, entries, alloc, log_vec, replayed, acked>>
  PROVE  /\ MemoryInv' /\ NodesInv'
         /\ ListInv => ListInv'
         /\ UseInv => UseInv'
         /\ Used("log")' = Used("log")
  <1>1. Used("log")' = Used("log")
    BY DEF Used, headers
  <1>2. MemoryInv'
    BY MemoryUnchanged DEF CalmInv
  <1> QED BY <1>1, <1>2 DEF CalmInv, NodesInv, ListInv, UseInv, headers, alloc

LEMMA InsertStep ==
  ASSUME TypeOK, Calm, CalmInv, NEW k \in Key, Insert(k)
  PROVE  CalmInv'
  <1>1. UNCHANGED <<headers, entries, alloc, log_vec, replayed, acked>>
    BY DEF Insert, seg, rec
  <1>2. CASE end_address # NoChunk
    <2>1. WriteInv'
      BY <1>1, <1>2 DEF Insert, CalmInv, BeforeCrash, WriteInv, Counts, entries, seg
    <2>2. CallInv'
      BY DEF Insert, CallInv, TypeOK
    <2>3. replayed' = {} /\ reading' = NoChunk /\ pc' = "append" /\ end_address' # NoChunk
      BY <1>2 DEF Insert, CalmInv, BeforeCrash, alloc, rec
    <2> QED BY <1>1, <1>2, <2>1, <2>2, <2>3, FrameStep DEF CalmInv, BeforeCrash
  <1>3. CASE end_address = NoChunk
    <2>1. ReadInv' /\ RefiledInv'
      BY <1>1, <1>3, FrameStep DEF Insert, CalmInv, AfterCrash, ReadInv, RefiledInv, Counts,
         entries, alloc, rec
    <2>2. pc' = "append" /\ log_vec' = NoChunk /\ end_address' = NoChunk
      BY <1>1, <1>3 DEF Insert, CalmInv, AfterCrash, alloc
    <2> QED BY <1>1, <2>1, <2>2, FrameStep DEF CalmInv, AfterCrash
  <1> QED BY <1>2, <1>3

LEMMA AppendStep ==
  ASSUME TypeOK, Calm, CalmInv, Append
  PROVE  CalmInv'
  <1>1. UNCHANGED <<headers, entries, alloc, log_vec, replayed, acked>>
    BY DEF Append, seg, rec, ghost
  <1>2. CASE end_address # NoChunk
    <2>1. WriteInv'
      BY <1>1, <1>2 DEF Append, CalmInv, BeforeCrash, WriteInv, Counts, entries, seg
    <2>2. CallInv'
      BY <1>2 DEF Append, CalmInv, BeforeCrash, CallInv, Calling, ghost
    <2>3. /\ replayed' = {} /\ reading' = NoChunk /\ end_address' # NoChunk
          /\ pc' \notin {"scan", "replay", "rebuilt"}
      BY <1>2 DEF Append, CalmInv, BeforeCrash, alloc, rec
    <2> QED BY <1>1, <1>2, <2>1, <2>2, <2>3, FrameStep DEF CalmInv, BeforeCrash
  <1>3. CASE end_address = NoChunk
    <2>1. /\ pc' = "get_free_block" /\ want' = "log" /\ log_vec' = NoChunk
          /\ end_address' = NoChunk
      BY <1>1, <1>3 DEF Append, CalmInv, AfterCrash, alloc
    <2>2. ReadInv' /\ RefiledInv'
      BY <1>1, <1>3, <2>1, FrameStep DEF Append, CalmInv, AfterCrash, ReadInv, RefiledInv,
         Counts, entries, alloc, rec
    <2> QED BY <1>1, <2>1, <2>2, FrameStep DEF CalmInv, AfterCrash
  <1> QED BY <1>2, <1>3

LEMMA FinishStep ==
  ASSUME TypeOK, Calm, CalmInv, FinishReplay
  PROVE  CalmInv'
  <1>1. UNCHANGED <<headers, entries, alloc, log_vec, replayed, acked>>
    BY DEF FinishReplay, seg, rec, ghost
  <1>2. end_address = NoChunk
    BY DEF FinishReplay, CalmInv, BeforeCrash
  <1>3. ReadInv' /\ RefiledInv'
    BY <1>1, <1>2, FrameStep DEF FinishReplay, CalmInv, AfterCrash, ReadInv, RefiledInv,
       Counts, entries, alloc, rec
  <1> QED BY <1>1, <1>2, <1>3, FrameStep DEF FinishReplay, CalmInv, AfterCrash, alloc, rec

LEMMA OpenStep ==
  ASSUME TypeOK, Calm, CalmInv, OpenSegment
  PROVE  CalmInv'
  <1>1. UNCHANGED <<headers, entries, alloc, log_vec, replayed, acked>>
    BY DEF OpenSegment, seg, ghost
  <1>2. end_address = NoChunk /\ ReadInv
    BY DEF OpenSegment, CalmInv, BeforeCrash, AfterCrash
  <1>3. PICK c \in unread : reading' = c /\ unread' = unread \ {c}
    BY DEF OpenSegment
  <1>4. pos' = 0 /\ reading = NoChunk /\ pc = "replay" /\ pc' = "replay" /\ c \in Chunk
    BY DEF OpenSegment, TypeOK
  <1>5. \A d \in Chunk : \A s \in Slot :
           (d \notin unread /\ (d = reading => s < pos))
              <=> (d \notin unread' /\ (d = reading' => s < pos'))
    BY <1>3, <1>4, PoolAssumption DEF Slot, Chunk
  <1>6. ReadInv'
    <2>1. /\ unread' \subseteq Used("log")' /\ reading' \in Used("log")' \ unread'
          /\ \A s \in Slot : ~ (s < pos')
      BY <1>1, <1>2, <1>3, <1>4, FrameStep, PoolAssumption DEF ReadInv, Slot
    <2> QED BY <1>1, <1>2, <1>5, <2>1 DEF ReadInv, Counts, entries
  <1>7. RefiledInv'
    BY <1>1, <1>2, <1>4, FrameStep DEF CalmInv, AfterCrash, RefiledInv, alloc
  <1> QED BY <1>1, <1>2, <1>4, <1>6, <1>7, FrameStep DEF CalmInv, AfterCrash, alloc

LEMMA ReplayStep ==
  ASSUME TypeOK, TailInv, Calm, CalmInv, ReplayEntry
  PROVE  (Calm' => CalmInv') /\ pc' # "aborted"
  <1>1. /\ UNCHANGED <<headers, entries, alloc, seg, log_vec, acked, unread>>
        /\ pc = "replay" /\ reading # NoChunk
    BY DEF ReplayEntry, seg, ghost
  <1>2. end_address = NoChunk /\ ReadInv /\ MemoryInv /\ RefiledInv /\ log_vec = NoChunk
    BY <1>1 DEF CalmInv, BeforeCrash, AfterCrash
  <1>3. /\ reading \in Used("log") \ unread /\ reading \in Chunk
        /\ \A s \in Slot : s < pos => Counts(reading, s)
    BY <1>1, <1>2 DEF ReadInv, TypeOK
  <1>4. Used("log")' = Used("log") /\ MemoryInv' /\ NodesInv'
    <2>1. Used("log")' = Used("log")
      BY <1>1 DEF Used, headers
    <2> QED BY <1>1, <1>2, <2>1, MemoryUnchanged DEF CalmInv, NodesInv, headers, alloc
  <1>5. CASE pos \in Slot /\ version[reading][pos] = 0
    <2>1. reading' = NoChunk /\ pos' = 0 /\ pc' = pc /\ replayed' = replayed
      BY <1>1, <1>5 DEF ReplayEntry
    <2>2. \A s \in Slot : Counts(reading, s) => s < pos
      <3> SUFFICES ASSUME NEW s \in Slot, Counts(reading, s), ~(s < pos) PROVE FALSE
        OBVIOUS
      <3>1. s = pos \/ pos < s
        BY <1>5, PoolAssumption DEF Slot
      <3>2. Counts(reading, pos)
        BY <1>2, <1>3, <1>5, <3>1 DEF MemoryInv
      <3> QED BY <1>5, <3>2 DEF Counts
    <2>3. \A c \in Chunk : \A s \in Slot : Counts(c, s) =>
             ((c \notin unread /\ (c = reading => s < pos))
                <=> (c \notin unread' /\ (c = reading' => s < pos')))
      BY <1>1, <1>3, <2>1, <2>2, PoolAssumption DEF Chunk
    <2>4. ReadInv'
      BY <1>1, <1>2, <1>4, <2>1, <2>3 DEF ReadInv, Counts, entries
    <2>5. RefiledInv'
      BY <1>1, <1>2, <1>4, <2>1 DEF RefiledInv, alloc
    <2> QED BY <1>1, <1>2, <1>4, <2>1, <2>4, <2>5 DEF CalmInv, AfterCrash, alloc
  <1>6. CASE pos \in Slot /\ version[reading][pos] # 0
    <2> DEFINE r == entry_key[reading][pos]
    <2>1. Counts(reading, pos) /\ r \in Key \cup {Blank}
      BY <1>3, <1>6 DEF Counts, TypeOK
    <2>2. r \notin replayed
      <3> SUFFICES ASSUME r \in replayed PROVE FALSE
        OBVIOUS
      <3>1. PICK c \in Chunk : \E s \in Slot :
               Counts(c, s) /\ entry_key[c][s] = r /\ (c = reading => s < pos)
        BY <1>2, <2>1 DEF ReadInv
      <3>2. PICK s \in Slot :
               Counts(c, s) /\ entry_key[c][s] = r /\ (c = reading => s < pos)
        BY <3>1
      <3>3. c = reading /\ s = pos
        BY <1>2, <1>3, <1>6, <2>1, <3>2 DEF MemoryInv
      <3> QED BY <1>6, <3>2, <3>3, PoolAssumption DEF Slot
    <2>3. reading' = reading /\ pos' = pos + 1 /\ pc' = pc /\ replayed' = replayed \cup {r}
      BY <1>1, <1>6, <2>2 DEF ReplayEntry
    <2>4. ReadInv'
      <3>1. \A s \in Slot : s < pos' <=> s < pos \/ s = pos
        BY <1>6, <2>3, PoolAssumption DEF Slot
      <3>2. ASSUME NEW q \in Key \cup {Blank}
            PROVE  q \in replayed' <=>
                     \E c \in Chunk : \E s \in Slot :
                        /\ Counts(c, s) /\ entry_key[c][s] = q
                        /\ c \notin unread
                        /\ c = reading => s < pos'
        <4>1. q \in replayed' <=> q \in replayed \/ q = r
          BY <2>3
        <4>2. q \in replayed <=>
                 \E c \in Chunk : \E s \in Slot :
                    /\ Counts(c, s) /\ entry_key[c][s] = q
                    /\ c \notin unread
                    /\ c = reading => s < pos
          BY <1>2 DEF ReadInv
        <4> QED BY <1>3, <1>6, <2>1, <3>1, <4>1, <4>2
      <3>3. \A s \in Slot : s < pos' => Counts(reading, s)
        BY <1>3, <2>1, <3>1
      <3> QED BY <1>1, <1>2, <1>3, <1>4, <2>3, <3>2, <3>3 DEF ReadInv, Counts, entries
    <2>5. RefiledInv'
      BY <1>1, <1>2, <1>4, <2>3 DEF RefiledInv, alloc
    <2> QED BY <1>1, <1>2, <1>4, <2>3, <2>4, <2>5 DEF CalmInv, AfterCrash, alloc
  <1>7. pos \in Slot
    BY DEF TypeOK, Slot
  <1> QED BY <1>5, <1>6, <1>7

LEMMA CrashStep ==
  ASSUME TypeOK, Calm, CalmInv, Crash
  PROVE  CalmInv'
  <1>1. UNCHANGED <<headers, entries, acked>> /\ MemoryInv'
    BY MemoryUnchanged DEF Crash, CalmInv, ghost
  <1>2. NodesInv'
    BY DEF Crash, NodesInv
  <1>3. AfterCrash' /\ end_address' = NoChunk
    BY DEF Crash, AfterCrash
  <1> QED BY <1>1, <1>2, <1>3 DEF CalmInv

LEMMA RecoverStep ==
  ASSUME TypeOK, Calm, CalmInv, IgnoreRecover
  PROVE  CalmInv'
  <1>1. UNCHANGED <<headers, entries, end_address, log_vec, want, reading, pos, replayed, acked>>
    BY DEF IgnoreRecover, seg, ghost, local
  <1>2. /\ end_address = NoChunk /\ MemoryInv /\ log_vec = NoChunk
        /\ replayed = {} /\ reading = NoChunk /\ pc = "scan" /\ pc' = "replay"
    BY DEF IgnoreRecover, CalmInv, BeforeCrash, AfterCrash
  <1>3. Used("log")' = Used("log") /\ MemoryInv'
    BY <1>1, <1>2, MemoryUnchanged DEF Used, headers
  <1>4. \A k \in Kind, i \in Id : list'[k][i] # NoChunk =>
           list'[k][i] \in Used(k) /\ block_id[list'[k][i]] = i
    <2> TAKE k \in Kind, i \in Id
    <2> DEFINE S == {c \in Used(k) : block_id[c] = i}
    <2>1. S \in SUBSET Chunk /\ S \in SUBSET Int
      BY DEF Used, Chunk
    <2>2. IsFiniteSet(S)
      BY <2>1, ChunksAreFinite, FS_Subset
    <2>3. S # {} => Highest(S) \in S
      BY <2>1, <2>2, HighestOf
    <2>4. list'[k][i] = IF S = {} THEN NoChunk ELSE Highest(S)
      BY DEF IgnoreRecover
    <2> QED BY <2>3, <2>4
  <1>5. \A c \in Used("log") : list'["log"][block_id[c]] = c /\ block_id[c] \in Id
    <2> TAKE c \in Used("log")
    <2> DEFINE S == {d \in Used("log") : block_id[d] = block_id[c]}
    <2>1. S = {c} /\ block_id[c] \in Id
      BY <1>2 DEF MemoryInv
    <2>2. list'["log"][block_id[c]] = Highest(S)
      BY <2>1 DEF IgnoreRecover
    <2>3. Highest(S) \in S
      <3>1. c \in Int
        BY DEF Used, Chunk
      <3>2. {c} \in SUBSET Int /\ IsFiniteSet({c}) /\ {c} # {}
        BY <3>1, FS_Singleton
      <3>3. Highest({c}) \in {c}
        BY <3>2, HighestOf
      <3> HIDE DEF S
      <3> QED BY <2>1, <3>3
    <2> QED BY <2>1, <2>2, <2>3
  <1>6. unread' = Used("log")
    <2>1. \A c \in Used("log") : c \in Chunk /\ c # NoChunk
      BY PoolAssumption DEF Used, Chunk
    <2>2. unread' = {c \in Chunk : \E i \in Id : list'["log"][i] = c}
      BY DEF IgnoreRecover
    <2> QED BY <1>4, <1>5, <2>1, <2>2, PoolAssumption DEF Chunk
  <1>7. ReadInv'
    <2>1. \A c \in Chunk : \A s \in Slot : Counts(c, s) => c \in unread'
      BY <1>2, <1>6 DEF MemoryInv
    <2> QED BY <1>1, <1>2, <1>3, <1>6, <2>1 DEF ReadInv, Counts, entries
  <1>8. NodesInv'
    BY <1>1, <1>4 DEF NodesInv, Used, headers
  <1>9. RefiledInv'
    <2>1. \A i \in Id : list'["node"][i] # NoChunk => i <= decision_id'["node"]
      <3> SUFFICES ASSUME NEW i \in Id, list'["node"][i] # NoChunk
                   PROVE  i <= decision_id'["node"]
        OBVIOUS
      <3>1. i \in {decision_id["node"]} \cup {block_id[c] : c \in Used("node")}
        BY <1>4
      <3>2. decision_id'["node"] =
               Highest({decision_id["node"]} \cup {block_id[c] : c \in Used("node")})
        BY DEF IgnoreRecover
      <3>3. "node" \in Kind
        OBVIOUS
      <3> QED BY <3>1, <3>2, <3>3, RecoveredIds
    <2>2. \A i \in Id : i \in Nat
      BY DEF Id
    <2>3. decision_id'["node"] \in Nat
      BY RecoveredIds DEF IgnoreRecover
    <2> QED BY <1>2, <1>3, <1>4, <2>1, <2>2, <2>3 DEF RefiledInv
  <1> QED BY <1>1, <1>2, <1>3, <1>7, <1>8, <1>9 DEF CalmInv, AfterCrash

(* Steps on the memory, before a crash.                                    *)
LEMMA PutVersionStep ==
  ASSUME TypeOK, TailInv, Calm, CalmInv, PutVersion
  PROVE  CalmInv'
  <1> USE PoolAssumption
  <1>1. /\ UNCHANGED <<headers, entry_key, alloc, seg, log_vec, temp_offset, want, key, len,
                      replayed, reading, called, acked>>
        /\ pc = "put_version" /\ pc' = "put_key" /\ Calling /\ Calling'
    BY DEF PutVersion, seg, local, rec, ghost, Calling
  <1>2. /\ end_address # NoChunk /\ BeforeCrash /\ MemoryInv /\ NodesInv
        /\ log_vec \in Chunk /\ temp_offset \in Slot /\ len = 8
    BY <1>1 DEF CalmInv, AfterCrash, TypeOK, TailInv, BeforeCrash, CallInv, Slot
  <1>3. Used("log")' = Used("log")
    BY <1>1 DEF Used, headers
  <1>4. log_vec \in Used("log")
    <2> DEFINE i == decision_id["log"] - 1
    <2>1. log_vec # NoChunk /\ decision_id["log"] \in Nat /\ page_id["log"] \in Nat
      BY <1>2 DEF TypeOK, Chunk
    <2>2. decision_id["log"] # 0 /\ log_vec = list["log"][i]
      BY <1>2, <2>1 DEF BeforeCrash, UseInv
    <2>3. /\ decision_id["log"] <= page_id["log"] /\ page_id["log"] \in 0 .. end_address
          /\ end_address \in 0 .. PoolChunks
      BY <1>2 DEF BeforeCrash, UseInv, ListInv, TypeOK
    <2>4. i \in Id /\ i < decision_id["log"]
      BY <2>1, <2>2, <2>3 DEF Id
    <2>5. block_type[log_vec] = "log" /\ bitmap[log_vec] = InUse
      BY <1>2, <2>1, <2>2, <2>4 DEF BeforeCrash, UseInv
    <2> QED BY <1>2, <2>5, UsedLog
  <1>5. \A c \in Chunk : \A s \in Slot :
           Counts(c, s)' <=> Counts(c, s) \/ (c = log_vec /\ s = temp_offset)
    BY <1>2 DEF PutVersion, Counts, TypeOK
  <1>6. ~Counts(log_vec, temp_offset) /\ entry_key[log_vec][temp_offset] = Blank
    <2>1. ~(temp_offset < temp_offset)
      BY <1>2 DEF Slot
    <2> QED BY <1>1, <1>2, <2>1 DEF BeforeCrash, WriteInv, MemoryInv
  <1>7. \A c \in Chunk : \A s \in Slot : Counts(c, s) => entry_key[c][s] # Blank
    BY <1>1, <1>2 DEF BeforeCrash, WriteInv
  <1>8. Records' \ {Blank} = acked
    <2>1. \A k \in Key : k \in Records' <=> k \in Records
      <3> TAKE k \in Key
      <3>1. k # Blank
        BY KeyAssumption
      <3>2. k \in Records' <=> \E c \in Used("log") : \E s \in Slot :
                                  Counts(c, s)' /\ entry_key[c][s] = k
        BY <1>1, <1>3 DEF Records
      <3>3. k \in Records <=> \E c \in Used("log") : \E s \in Slot :
                                  Counts(c, s) /\ entry_key[c][s] = k
        BY RecordsAre
      <3>4. \A c \in Used("log") : c \in Chunk
        BY DEF Used
      <3> QED BY <1>5, <1>6, <3>1, <3>2, <3>3, <3>4
    <2>2. Records' \subseteq Key \cup {Blank} /\ Records \subseteq Key \cup {Blank}
      BY DEF Records
    <2> QED BY <1>2, <2>1, <2>2 DEF MemoryInv
  <1>9. MemoryInv'
    <2>1. /\ \A c, d \in Used("log") : block_id'[c] = block_id'[d] => c = d
          /\ \A c \in Used("log") : block_id'[c] \in Id
          /\ \A c \in Chunk : \A s \in Slot : Counts(c, s)' => c \in Used("log")
          /\ \A c \in Chunk : \A s \in Slot : ~Counts(c, s)' => entry_key[c][s] = Blank
      BY <1>1, <1>2, <1>4, <1>5 DEF MemoryInv, headers
    <2>2. \A c \in Chunk : \A s, t \in Slot : s < t /\ Counts(c, t)' => Counts(c, s)'
      <3> SUFFICES ASSUME NEW c \in Chunk, NEW s \in Slot, NEW t \in Slot,
                          s < t, Counts(c, t)'
                   PROVE  Counts(c, s)'
        OBVIOUS
      <3>1. CASE Counts(c, t)
        BY <1>2, <1>5, <3>1 DEF MemoryInv
      <3>2. CASE c = log_vec /\ t = temp_offset
        BY <1>2, <1>5, <3>2 DEF BeforeCrash, WriteInv
      <3> QED BY <1>5, <3>1, <3>2
    <2>3. \A c, d \in Chunk : \A s, t \in Slot :
             Counts(c, s)' /\ Counts(d, t)' /\ entry_key[c][s] = entry_key[d][t]
                => c = d /\ s = t
      BY <1>2, <1>5, <1>6, <1>7 DEF MemoryInv
    <2> QED BY <1>1, <1>3, <1>8, <2>1, <2>2, <2>3 DEF MemoryInv
  <1>10. WriteInv'
    BY <1>1, <1>2, <1>5, <1>6, <1>7 DEF BeforeCrash, WriteInv
  <1>11. NodesInv' /\ ListInv' /\ UseInv' /\ CallInv'
    BY <1>1, <1>2, <1>3 DEF NodesInv, BeforeCrash, ListInv, UseInv, CallInv, headers, alloc
  <1> QED BY <1>1, <1>2, <1>9, <1>10, <1>11 DEF CalmInv, BeforeCrash, alloc

LEMMA PutKeyStep ==
  ASSUME TypeOK, TailInv, Calm, CalmInv, PutKey
  PROVE  CalmInv'
  <1> USE PoolAssumption
  <1>1. /\ UNCHANGED <<headers, version, alloc, log_vec, want, key, len,
                      replayed, reading, called>>
        /\ pc = "put_key" /\ pc' = "idle" /\ Calling /\ ~Calling'
    BY DEF PutKey, local, rec, Calling
  <1>2. /\ end_address # NoChunk /\ BeforeCrash /\ MemoryInv /\ NodesInv
        /\ log_vec \in Chunk /\ temp_offset \in Slot /\ len = 8
        /\ key \in Key /\ key \notin acked /\ key # Blank
    BY <1>1, KeyAssumption DEF CalmInv, AfterCrash, TypeOK, TailInv, BeforeCrash, CallInv, Slot
  <1>3. /\ temp_offset' = temp_offset + 1 /\ acked' = acked \cup {key}
        /\ Used("log")' = Used("log")
    BY <1>1, <1>2 DEF PutKey, Used, headers
  <1>4. \A c, s : Counts(c, s)' <=> Counts(c, s)
    BY <1>1 DEF Counts
  <1>5. \A c \in Chunk : \A s \in Slot :
           entry_key'[c][s] = IF c = log_vec /\ s = temp_offset THEN key ELSE entry_key[c][s]
    BY <1>2 DEF PutKey, TypeOK
  <1>6. Counts(log_vec, temp_offset) /\ log_vec \in Used("log")
    BY <1>1, <1>2 DEF BeforeCrash, WriteInv, MemoryInv
  <1>7. \A c \in Chunk : \A s \in Slot :
           Counts(c, s) => /\ entry_key[c][s] # key
                           /\ entry_key[c][s] = Blank => c = log_vec /\ s = temp_offset
    <2>1. \A c \in Chunk : \A s \in Slot : Counts(c, s) => entry_key[c][s] # key
      <3> SUFFICES ASSUME NEW c \in Chunk, NEW s \in Slot, Counts(c, s), entry_key[c][s] = key
                   PROVE  FALSE
        OBVIOUS
      <3>1. c \in Used("log")
        BY <1>2 DEF MemoryInv
      <3>2. key \in Records
        BY <1>2, <3>1, RecordsAre
      <3> QED BY <1>2, <3>2 DEF MemoryInv
    <2> QED BY <1>2, <2>1 DEF BeforeCrash, WriteInv
  <1>8. Records' \ {Blank} = acked'
    <2>1. \A k \in Key : k \in Records' <=> k \in Records \/ k = key
      <3> TAKE k \in Key
      <3>1. k # Blank
        BY KeyAssumption
      <3>2. k \in Records' <=> \E c \in Used("log") : \E s \in Slot :
                                  Counts(c, s) /\ entry_key'[c][s] = k
        BY <1>3, <1>4 DEF Records
      <3>3. k \in Records <=> \E c \in Used("log") : \E s \in Slot :
                                  Counts(c, s) /\ entry_key[c][s] = k
        BY RecordsAre
      <3>4. \A c \in Used("log") : c \in Chunk
        BY DEF Used
      <3>5. entry_key[log_vec][temp_offset] = Blank
        BY <1>1, <1>2 DEF BeforeCrash, WriteInv
      <3> QED BY <1>2, <1>5, <1>6, <3>1, <3>2, <3>3, <3>4, <3>5
    <2>2. Records' \subseteq Key \cup {Blank} /\ Records \subseteq Key \cup {Blank}
      BY DEF Records
    <2> QED BY <1>2, <1>3, <2>1, <2>2 DEF MemoryInv
  <1>9. MemoryInv'
    <2>1. /\ \A c, d \in Used("log") : block_id'[c] = block_id'[d] => c = d
          /\ \A c \in Used("log") : block_id'[c] \in Id
          /\ \A c \in Chunk : \A s, t \in Slot : s < t /\ Counts(c, t) => Counts(c, s)
          /\ \A c \in Chunk : \A s \in Slot : Counts(c, s) => c \in Used("log")
          /\ \A c \in Chunk : \A s \in Slot : ~Counts(c, s) => entry_key'[c][s] = Blank
      BY <1>1, <1>2, <1>5, <1>6 DEF MemoryInv, headers
    <2>2. \A c, d \in Chunk : \A s, t \in Slot :
             Counts(c, s) /\ Counts(d, t) /\ entry_key'[c][s] = entry_key'[d][t]
                => c = d /\ s = t
      BY <1>2, <1>5, <1>7 DEF MemoryInv
    <2> QED BY <1>3, <1>4, <1>8, <2>1, <2>2 DEF MemoryInv
  <1>10. WriteInv'
    <2>1. \A s \in Slot : s < temp_offset' <=> s < temp_offset \/ s = temp_offset
      BY <1>2, <1>3 DEF Slot
    <2>2. \A c \in Chunk : \A s \in Slot : Counts(c, s) => entry_key'[c][s] # Blank
      BY <1>2, <1>5, <1>7
    <2> QED BY <1>1, <1>2, <1>4, <2>1, <2>2 DEF BeforeCrash, WriteInv
  <1>11. NodesInv' /\ ListInv' /\ UseInv' /\ CallInv'
    BY <1>1, <1>2, <1>3 DEF NodesInv, BeforeCrash, ListInv, UseInv, CallInv, headers, alloc
  <1> QED BY <1>1, <1>2, <1>9, <1>10, <1>11 DEF CalmInv, BeforeCrash, alloc

LEMMA CarveStep ==
  ASSUME TypeOK, Calm, CalmInv, GetMoreChunk
  PROVE  CalmInv'
  <1> USE PoolAssumption
  <1> DEFINE e == end_address
             p == page_id[want]
             new == e .. e + Batch - 1
             fresh(k, i) == k = want /\ p <= i /\ i < p + Batch
  <1>1. /\ UNCHANGED <<entries, version, entry_key, decision_id, log_vec, temp_offset, want,
                      key, len, replayed, reading, called, acked>>
        /\ pc = "get_free_block" /\ pc' = "grown"
        /\ Calling' <=> Calling
    BY DEF GetMoreChunk, entries, seg, local, rec, ghost, Calling
  <1>2. /\ e # NoChunk /\ BeforeCrash /\ MemoryInv /\ NodesInv
        /\ e \in Nat /\ e + Batch <= PoolChunks /\ want \in Kind /\ p \in Nat /\ p <= e
        /\ end_address' = e + Batch /\ end_address' # NoChunk
    BY DEF GetMoreChunk, CalmInv, TypeOK, BeforeCrash, ListInv
  <1>3. \A k \in Kind : page_id'[k] = IF k = want THEN p + Batch ELSE page_id[k]
    BY DEF GetMoreChunk, TypeOK
  <1>4. \A k \in Kind : \A i \in Id :
           /\ fresh(k, i) => list'[k][i] = e + i - p /\ list'[k][i] \in new
           /\ ~fresh(k, i) => list'[k][i] = list[k][i]
    <2> TAKE k \in Kind
    <2> TAKE i \in Id
    <2>1. i \in Nat /\ (i - p \in 0 .. Batch - 1 <=> p <= i /\ i < p + Batch)
      BY <1>2 DEF Id
    <2>2. list'[k][i] = IF fresh(k, i) THEN e + i - p ELSE list[k][i]
      BY <2>1 DEF GetMoreChunk, TypeOK
    <2>3. fresh(k, i) => e + i - p \in new
      BY <1>2, <2>1
    <2> QED BY <2>2, <2>3
  <1>5. \A c \in Chunk :
           /\ c \in new => bitmap'[c] = 0 /\ block_type'[c] = want
           /\ c \notin new => /\ bitmap'[c] = bitmap[c] /\ block_id'[c] = block_id[c]
                              /\ block_type'[c] = block_type[c]
    BY <1>2 DEF GetMoreChunk, TypeOK
  <1>6. \A k \in Kind : \A i \in Id : list[k][i] # NoChunk =>
           /\ list[k][i] \in Chunk /\ list[k][i] < e /\ list[k][i] \notin new /\ ~fresh(k, i)
    <2> TAKE k \in Kind
    <2> TAKE i \in Id
    <2> HAVE list[k][i] # NoChunk
    <2>1. list[k][i] \in Chunk /\ list[k][i] < e /\ i < page_id[k] /\ i \in Nat
      <3>1. list[k][i] \in Chunk
        BY DEF TypeOK
      <3>2. list[k][i] < e /\ i < page_id[k]
        BY <1>2 DEF BeforeCrash, ListInv
      <3> QED BY <3>1, <3>2 DEF Id
    <2>2. list[k][i] \notin new
      <3>1. \A c \in Chunk : c < e => c \notin new
        BY <1>2 DEF Chunk
      <3> QED BY <2>1, <3>1
    <2>3. page_id[k] \in Nat
      BY DEF TypeOK
    <2>4. ~fresh(k, i)
      BY <1>2, <2>1, <2>3
    <2> QED BY <2>1, <2>2, <2>4
  <1>7. new \subseteq Chunk /\ \A i \in Id : i \in Nat
    BY <1>2 DEF Chunk, Id
  <1>8. Used("log")' = Used("log") /\ \A c \in Used("log") : c \notin new /\ c \in Chunk
    <2>1. \A c \in Used("log") : c \notin new /\ c \in Chunk
      <3> TAKE c \in Used("log")
      <3>1. c \in Chunk /\ c # NoChunk
        BY DEF Used, Chunk
      <3>2. PICK i \in Id : list["log"][i] = c
        BY <1>2 DEF BeforeCrash, UseInv
      <3> QED BY <1>6, <3>1, <3>2
    <2>2. \A c \in Chunk : c \in Used("log")' <=> c \in Used("log")
      <3> TAKE c \in Chunk
      <3>1. CASE c \in new
        BY <1>5, <2>1, <3>1 DEF Used, InUse
      <3>2. CASE c \notin new
        BY <1>5, <3>2 DEF Used
      <3> QED BY <3>1, <3>2
    <2>3. Used("log")' \subseteq Chunk
      BY DEF Used
    <2> QED BY <2>1, <2>2, <2>3
  <1>9. MemoryInv'
    BY <1>1, <1>2, <1>5, <1>8, MemoryFrame
  <1>10. NodesInv'
    <2> SUFFICES ASSUME NEW i \in Id, list'["node"][i] # NoChunk
                 PROVE  block_type'[list'["node"][i]] = "node"
      BY DEF NodesInv
    <2>1. CASE fresh("node", i)
      BY <1>4, <1>5, <1>7, <2>1
    <2>2. CASE ~fresh("node", i)
      BY <1>2, <1>4, <1>5, <1>6, <2>2 DEF NodesInv
    <2> QED BY <2>1, <2>2
  <1>11. ListInv'
    <2>1. \A k \in Kind : page_id'[k] \in 0 .. end_address'
      BY <1>2, <1>3 DEF BeforeCrash, ListInv
    <2>2. \A k \in Kind : \A i \in Id : list'[k][i] # NoChunk <=> i < page_id'[k]
      <3> TAKE k \in Kind
      <3> TAKE i \in Id
      <3>1. CASE fresh(k, i)
        BY <1>3, <1>4, <1>7, <3>1 DEF Chunk
      <3>2. CASE ~fresh(k, i)
        <4>1. list'[k][i] # NoChunk <=> i < page_id[k]
          BY <1>2, <1>4, <3>2 DEF BeforeCrash, ListInv
        <4>2. i \in Nat /\ page_id[k] \in Nat
          BY <1>7 DEF TypeOK
        <4> QED BY <1>2, <1>3, <3>2, <4>1, <4>2
      <3> QED BY <3>1, <3>2
    <2>3. \A k \in Kind : \A i \in Id : list'[k][i] # NoChunk =>
             list'[k][i] < end_address' /\ (list'[k][i] \in new <=> fresh(k, i))
      <3> TAKE k \in Kind
      <3> TAKE i \in Id
      <3>1. CASE fresh(k, i)
        BY <1>2, <1>4, <3>1
      <3>2. CASE ~fresh(k, i)
        BY <1>2, <1>4, <1>6, <3>2 DEF Chunk
      <3> QED BY <3>1, <3>2
    <2>4. ASSUME NEW k \in Kind, NEW m \in Kind, NEW i \in Id, NEW j \in Id,
                 list'[k][i] = list'[m][j], list'[k][i] # NoChunk
          PROVE  k = m /\ i = j
      <3>1. fresh(k, i) <=> fresh(m, j)
        BY <2>3, <2>4
      <3>2. CASE fresh(k, i)
        <4>1. e + i - p = e + j - p
          BY <1>4, <2>4, <3>1, <3>2
        <4> QED BY <1>2, <1>7, <3>1, <3>2, <4>1
      <3>3. CASE ~fresh(k, i)
        BY <1>2, <1>4, <2>4, <3>1, <3>3 DEF BeforeCrash, ListInv
      <3> QED BY <3>2, <3>3
    <2> QED BY <2>1, <2>2, <2>3, <2>4 DEF ListInv
  <1>12. UseInv'
    <2> DEFINE d == decision_id["log"]
    <2>1. d \in Nat /\ d <= page_id["log"] /\ page_id["log"] \in Nat
          /\ page_id["log"] <= e
      BY <1>2 DEF BeforeCrash, UseInv, ListInv, TypeOK
    <2>2. d <= page_id'["log"]
      BY <1>2, <1>3, <2>1
    <2>3. ASSUME NEW i \in Id, list'["log"][i] # NoChunk
          PROVE  /\ block_type'[list'["log"][i]] = "log"
                 /\ bitmap'[list'["log"][i]] = IF i < d THEN InUse ELSE 0
                 /\ i < d => block_id'[list'["log"][i]] = i + 1
      <3>1. CASE fresh("log", i)
        <4>1. ~(i < d)
          BY <1>2, <1>7, <2>1, <3>1
        <4> QED BY <1>4, <1>5, <1>7, <3>1, <4>1
      <3>2. CASE ~fresh("log", i)
        BY <1>2, <1>4, <1>5, <1>6, <2>3, <3>2 DEF BeforeCrash, UseInv
      <3> QED BY <3>1, <3>2
    <2>4. \A c \in Used("log") : \E i \in Id : list'["log"][i] = c
      <3> TAKE c \in Used("log")
      <3>1. c # NoChunk
        BY <1>8 DEF Chunk
      <3>2. PICK i \in Id : list["log"][i] = c
        BY <1>2 DEF BeforeCrash, UseInv
      <3> QED BY <1>4, <1>6, <3>1, <3>2
    <2>5. d # 0 => list'["log"][d - 1] = list["log"][d - 1]
      <3> HAVE d # 0
      <3>1. d - 1 \in Id /\ d - 1 < page_id["log"]
        BY <1>2, <2>1 DEF Id
      <3> QED BY <1>2, <1>4, <1>6, <3>1 DEF BeforeCrash, ListInv
    <2>6. /\ d = 0 => log_vec = NoChunk
          /\ d # 0 => log_vec = list["log"][d - 1]
      BY <1>2 DEF BeforeCrash, UseInv
    <2> QED BY <1>1, <1>8, <2>2, <2>3, <2>4, <2>5, <2>6 DEF UseInv
  <1>13. WriteInv' /\ CallInv'
    BY <1>1, <1>2 DEF BeforeCrash, WriteInv, CallInv, Counts
  <1> QED BY <1>1, <1>2, <1>9, <1>10, <1>11, <1>12, <1>13 DEF CalmInv, BeforeCrash

LEMMA TakeSegmentStep ==
  ASSUME TypeOK, Calm, CalmInv, TakeSegment
  PROVE  Calm' => CalmInv'
  <1> USE PoolAssumption
  <1> DEFINE d == decision_id["log"]
             c == Filed
  <1>1. /\ UNCHANGED <<entries, version, entry_key, list, page_id, end_address, want, key, len,
                      replayed, reading, called, acked>>
        /\ pc \in {"get_free_block", "grown"} /\ want = "log" /\ Calling
        /\ log_vec' = c /\ temp_offset' = 0
        /\ pc' = IF bitmap[c] = 0 THEN "put_version" ELSE "overlap"
    BY DEF TakeSegment, entries, local, rec, ghost, Calling
  <1>2. c \in Chunk /\ d \in Id /\ c = list["log"][d] /\ c # NoChunk /\ d \in Nat
    BY <1>1, FiledType DEF TakeSegment, Filed, Id
  <1>3. CASE end_address = NoChunk
    <2>1. c \in Used("log")
      BY <1>1, <1>2, <1>3 DEF CalmInv, AfterCrash, RefiledInv
    <2>2. pc' = "overlap"
      BY <1>1, <2>1, UsedLog DEF InUse
    <2> QED BY <2>2 DEF Calm, Halted
  <1>4. CASE end_address # NoChunk
    <2>1. BeforeCrash /\ MemoryInv /\ NodesInv /\ end_address \in 0 .. PoolChunks
      BY <1>4 DEF CalmInv, TypeOK
    <2>2. bitmap[c] = 0 /\ block_type[c] = "log"
      BY <1>2, <2>1 DEF BeforeCrash, UseInv
    <2>3. d < page_id["log"] /\ page_id["log"] \in 0 .. end_address
      BY <1>2, <2>1 DEF BeforeCrash, ListInv
    <2>4. d + 1 \in Id /\ d + 1 <= page_id["log"]
      BY <1>2, <2>1, <2>3 DEF Id
    <2>5. /\ decision_id'["log"] = d + 1 /\ pc' = "put_version" /\ Calling'
          /\ block_type' = [block_type EXCEPT ![c] = "log"]
          /\ block_id' = [block_id EXCEPT ![c] = d + 1]
          /\ bitmap' = [bitmap EXCEPT ![c] = InUse]
      BY <1>1, <2>2 DEF TakeSegment, TypeOK, Calling
    <2> HIDE DEF d, c
    <2>6. \A x \in Chunk :
             /\ block_type'[x] = IF x = c THEN "log" ELSE block_type[x]
             /\ block_id'[x] = IF x = c THEN d + 1 ELSE block_id[x]
             /\ bitmap'[x] = IF x = c THEN InUse ELSE bitmap[x]
      BY <1>2, <2>5 DEF TypeOK
    <2>7. Used("log")' = Used("log") \cup {c} /\ c \notin Used("log")
      <3>1. c \notin Used("log")
        BY <2>2, UsedLog DEF InUse
      <3>2. \A x \in Chunk : x \in Used("log")' <=> x \in Used("log") \/ x = c
        BY <2>6 DEF Used
      <3>3. Used("log")' \subseteq Chunk /\ Used("log") \subseteq Chunk
        BY DEF Used
      <3> QED BY <1>2, <3>1, <3>2, <3>3
    <2>8. \A x \in Used("log") :
             /\ x \in Chunk /\ x # c
             /\ \E i \in Id : list["log"][i] = x /\ i < d /\ block_id[x] = i + 1
      <3> TAKE x \in Used("log")
      <3>1. x \in Chunk /\ bitmap[x] = InUse /\ x # NoChunk
        BY UsedLog DEF Chunk
      <3>2. PICK i \in Id : list["log"][i] = x
        BY <2>1 DEF BeforeCrash, UseInv
      <3>3. i < decision_id["log"]
        BY <2>1, <3>1, <3>2 DEF BeforeCrash, UseInv, InUse
      <3>4. block_id[x] = i + 1
        BY <2>1, <3>1, <3>2, <3>3 DEF BeforeCrash, UseInv
      <3> QED BY <2>7, <3>1, <3>2, <3>3, <3>4 DEF d
    <2>9. \A x \in Used("log") : block_id[x] # d + 1
      <3> TAKE x \in Used("log")
      <3>1. PICK i \in Id : i < d /\ block_id[x] = i + 1
        BY <2>8
      <3>2. i \in Nat
        BY DEF Id
      <3> QED BY <1>2, <3>1, <3>2
    <2>10. \A x, s : Counts(x, s)' <=> Counts(x, s)
      BY <1>1 DEF Counts
    <2>11. \A s \in Slot : ~Counts(c, s)
      BY <1>2, <2>1, <2>7 DEF MemoryInv
    <2>12. MemoryInv'
      <3>1. Records' = Records
        BY <1>1, <2>7, <2>10, <2>11 DEF Records
      <3>2. \A x, y \in Used("log")' : block_id'[x] = block_id'[y] => x = y
        BY <1>2, <2>1, <2>6, <2>7, <2>8, <2>9 DEF MemoryInv
      <3>3. \A x \in Used("log")' : block_id'[x] \in Id
        BY <1>2, <2>1, <2>4, <2>6, <2>7, <2>8 DEF MemoryInv
      <3> QED BY <1>1, <2>1, <2>7, <2>10, <3>1, <3>2, <3>3 DEF MemoryInv
    <2>13. \A k \in Kind : \A i \in Id : list[k][i] # NoChunk =>
              list[k][i] \in Chunk /\ (list[k][i] = c => k = "log" /\ i = d)
      BY <1>2, <2>1 DEF BeforeCrash, ListInv, TypeOK
    <2>14. NodesInv'
      BY <1>1, <2>1, <2>6, <2>13 DEF NodesInv
    <2>15. ListInv'
      BY <1>1, <2>1 DEF BeforeCrash, ListInv
    <2>16. UseInv'
      <3>1. ASSUME NEW i \in Id, list["log"][i] # NoChunk
            PROVE  /\ block_type'[list["log"][i]] = "log"
                   /\ bitmap'[list["log"][i]] = IF i < d + 1 THEN InUse ELSE 0
                   /\ i < d + 1 => block_id'[list["log"][i]] = i + 1
        <4>1. list["log"][i] \in Chunk /\ i \in Nat
          BY <2>13, <3>1 DEF Id
        <4>2. CASE i = d
          BY <1>2, <2>6, <4>2
        <4>3. CASE i # d
          <5>1. list["log"][i] # c
            BY <2>13, <3>1, <4>3
          <5>2. i < d + 1 <=> i < d
            BY <1>2, <4>1, <4>3
          <5>3. /\ block_type[list["log"][i]] = "log"
                /\ bitmap[list["log"][i]] = IF i < d THEN InUse ELSE 0
                /\ i < d => block_id[list["log"][i]] = i + 1
            BY <2>1, <3>1 DEF BeforeCrash, UseInv, d
          <5> QED BY <2>6, <4>1, <5>1, <5>2, <5>3
        <4> QED BY <4>2, <4>3
      <3>2. \A x \in Used("log")' : \E i \in Id : list["log"][i] = x
        BY <1>2, <2>7, <2>8
      <3> DEFINE e == d + 1
      <3>3. c = list["log"][d]
        BY <1>2 DEF d, c
      <3>6. e # 0 /\ e - 1 = d
        BY <1>2
      <3>4. decision_id'["log"] = e /\ e # 0 /\ c = list["log"][e - 1] /\ e <= page_id["log"]
        <4>1. decision_id'["log"] = e /\ e <= page_id["log"]
          BY <2>4, <2>5
        <4> HIDE DEF e
        <4> QED BY <3>3, <3>6, <4>1
      <3> HIDE DEF e
      <3>5. \A i \in Id : list["log"][i] # NoChunk =>
               /\ block_type'[list["log"][i]] = "log"
               /\ bitmap'[list["log"][i]] = IF i < e THEN InUse ELSE 0
               /\ i < e => block_id'[list["log"][i]] = i + 1
        BY <3>1 DEF e
      <3> QED BY <1>1, <3>2, <3>4, <3>5 DEF UseInv
    <2>17. WriteInv'
      <3>1. \A x \in Chunk : \A s \in Slot : Counts(x, s) => entry_key[x][s] # Blank
        BY <1>1, <2>1 DEF BeforeCrash, WriteInv
      <3>2. \A s \in Slot : ~(s < 0)
        BY DEF Slot
      <3> QED BY <1>1, <2>5, <2>10, <2>11, <3>1, <3>2 DEF WriteInv
    <2>18. CallInv'
      BY <1>1, <2>1 DEF BeforeCrash, CallInv
    <2> QED BY <1>1, <1>4, <2>1, <2>5, <2>12, <2>14, <2>15, <2>16, <2>17, <2>18
            DEF CalmInv, BeforeCrash
  <1> QED BY <1>3, <1>4

(* The steps that change the bitmaps of node chunks, or which one is used. *)
LEMMA NodeFrame ==
  ASSUME TypeOK, CalmInv,
         UNCHANGED <<block_type, block_id, version, entry_key, list, page_id, end_address,
                     log_vec, acked>>,
         decision_id'["log"] = decision_id["log"],
         \A x \in Chunk : block_type[x] # "node" => bitmap'[x] = bitmap[x]
  PROVE  /\ Used("log")' = Used("log") /\ MemoryInv' /\ NodesInv'
         /\ ListInv => ListInv'
         /\ UseInv => UseInv'
  <1>1. Used("log")' = Used("log")
    BY DEF Used
  <1>2. MemoryInv'
    BY <1>1, MemoryFrame DEF CalmInv
  <1>3. UseInv => UseInv'
    <2> SUFFICES ASSUME UseInv PROVE UseInv'
      OBVIOUS
    <2>1. \A i \in Id : list["log"][i] # NoChunk =>
             bitmap'[list["log"][i]] = bitmap[list["log"][i]]
      BY DEF UseInv, TypeOK
    <2> QED BY <1>1, <2>1 DEF UseInv
  <1> QED BY <1>1, <1>2, <1>3 DEF CalmInv, NodesInv, ListInv

LEMMA TakeLeafStep ==
  ASSUME TypeOK, Calm, CalmInv, TakeLeafChunk
  PROVE  CalmInv'
  <1> USE PoolAssumption
  <1>1. /\ UNCHANGED <<block_id, entries, version, entry_key, alloc, list, page_id, end_address,
                      decision_id, log_vec, temp_offset, want, replayed, reading, acked>>
        /\ pc \in {"get_free_block", "grown"} /\ want = "node" /\ pc' = "idle" /\ ~Calling'
    BY DEF TakeLeafChunk, entries, alloc, seg, local, rec, ghost, Calling
  <1>2. /\ Filed \in Chunk /\ decision_id["node"] \in Id
        /\ Filed = list["node"][decision_id["node"]] /\ Filed # NoChunk
    BY <1>1, FiledType DEF TakeLeafChunk, Filed
  <1>3. end_address # NoChunk
    <2> SUFFICES ASSUME end_address = NoChunk PROVE FALSE
      OBVIOUS
    <2>1. RefiledInv /\ pc = "get_free_block"
      BY <1>1 DEF CalmInv, AfterCrash
    <2>2. decision_id["node"] \in Nat
      BY DEF TypeOK
    <2> QED BY <1>1, <1>2, <2>1, <2>2 DEF RefiledInv
  <1>4. block_type[Filed] = "node"
    BY <1>2 DEF CalmInv, NodesInv
  <1>5. block_type' = block_type /\ \A x \in Chunk : x # Filed => bitmap'[x] = bitmap[x]
    BY <1>2, <1>4 DEF TakeLeafChunk, TypeOK
  <1>6. MemoryInv' /\ NodesInv' /\ ListInv' /\ UseInv'
    BY <1>1, <1>3, <1>4, <1>5, NodeFrame DEF CalmInv, BeforeCrash
  <1>7. WriteInv' /\ CallInv'
    BY <1>1, <1>3 DEF CalmInv, BeforeCrash, WriteInv, CallInv, Counts
  <1> QED BY <1>1, <1>3, <1>6, <1>7 DEF CalmInv, BeforeCrash

LEMMA AllocLeafStep ==
  ASSUME TypeOK, Calm, CalmInv, AllocLeaf
  PROVE  Calm' => CalmInv'
  <1> USE PoolAssumption
  <1> DEFINE n == decision_id["node"]
             c == IF n \in Id THEN list["node"][n] ELSE NoChunk
  <1> SUFFICES ASSUME Calm' PROVE CalmInv'
    OBVIOUS
  <1>1. UNCHANGED <<block_type, block_id, entries, version, entry_key, list, page_id, end_address,
                    log_vec, temp_offset, key, len, reading, pos, unread, replayed, acked>>
    BY DEF AllocLeaf, entries, seg, rec, ghost
  <1>2. c # NoChunk /\ n \in Id /\ c = list["node"][n] /\ c \in Chunk /\ n \in Nat
    <2>1. c # NoChunk
      BY DEF AllocLeaf, Calm, Halted
    <2> QED BY <2>1 DEF TypeOK
  <1>3. block_type[c] = "node"
    BY <1>2 DEF CalmInv, NodesInv
  <1>4. /\ pc \in {"idle", "replay"} /\ pc' \in {pc, "get_free_block"}
        /\ decision_id'["log"] = decision_id["log"]
        /\ decision_id'["node"] \in {n, n + 1}
        /\ pc' = "get_free_block" => want' = "node" /\ decision_id'["node"] = n + 1
        /\ \A x \in Chunk : x # c => bitmap'[x] = bitmap[x]
    BY <1>2 DEF AllocLeaf, TypeOK
  <1>5. ~Calling'
    BY <1>4 DEF Calling
  <1>6. /\ Used("log")' = Used("log") /\ MemoryInv' /\ NodesInv'
        /\ ListInv => ListInv'
        /\ UseInv => UseInv'
    BY <1>1, <1>3, <1>4, NodeFrame
  <1>7. CASE end_address # NoChunk
    <2>1. WriteInv' /\ CallInv'
      BY <1>1, <1>4, <1>5, <1>7 DEF CalmInv, BeforeCrash, WriteInv, CallInv, Counts
    <2> QED BY <1>1, <1>4, <1>6, <1>7, <2>1 DEF CalmInv, BeforeCrash
  <1>8. CASE end_address = NoChunk
    <2>1. ReadInv /\ RefiledInv /\ pc = "replay"
      BY <1>4, <1>8 DEF CalmInv, AfterCrash
    <2>2. ReadInv'
      BY <1>1, <1>6, <2>1 DEF ReadInv, Counts
    <2>3. RefiledInv'
      <3>1. \A i \in Id : list["node"][i] # NoChunk => i \in Nat /\ (i < n \/ i = n)
        BY <2>1 DEF RefiledInv, Id
      <3> QED BY <1>1, <1>2, <1>4, <1>6, <2>1, <3>1 DEF RefiledInv
    <2> QED BY <1>1, <1>4, <1>6, <1>8, <2>1, <2>2, <2>3 DEF CalmInv, AfterCrash
  <1> QED BY <1>7, <1>8

LEMMA InitLog == Init => LogInv
  <1> SUFFICES ASSUME Init PROVE LogInv
    OBVIOUS
  <1> USE PoolAssumption
  <1>1. \A c : \A s : c \in Chunk /\ s \in Slot =>
           ~Counts(c, s) /\ entry_key[c][s] = Blank /\ bitmap[c] = 0
    BY DEF Init, Counts
  <1>2. Used("log") = {}
    BY DEF Init, Used, InUse
  <1>3. MemoryInv
    <2>1. Records = {}
      BY <1>2 DEF Records
    <2> QED BY <1>1, <1>2, <2>1 DEF MemoryInv, Init
  <1>4. \A k \in Kind : \A i \in Id :
           /\ i \in Nat
           /\ list[k][i] = IF i >= Batch THEN NoChunk ELSE IF k = "node" THEN i ELSE Batch + i
    BY DEF Init, Id
  <1>5. /\ \A k \in Kind : page_id[k] = Batch /\ decision_id[k] = 0
        /\ end_address = 2 * Batch /\ log_vec = NoChunk /\ pc = "idle" /\ disturbed = 0
        /\ replayed = {} /\ reading = NoChunk
    BY DEF Init
  <1>6. \A c \in Chunk : /\ c < Batch => block_type[c] = "node"
                         /\ Batch <= c /\ c < 2 * Batch => block_type[c] = "log"
    BY DEF Init, Chunk
  <1>7. \A k \in Kind : \A i \in Id :
           list[k][i] # NoChunk <=> i < Batch
    BY <1>4
  <1>8. NodesInv
    BY <1>4, <1>6 DEF NodesInv, Chunk
  <1>9. ListInv
    BY <1>4, <1>5, <1>7 DEF ListInv
  <1>10. UseInv
    <2>1. ASSUME NEW i \in Id, list["log"][i] # NoChunk
          PROVE  /\ block_type[list["log"][i]] = "log" /\ bitmap[list["log"][i]] = 0
                 /\ ~(i < decision_id["log"])
      <3>1. i < Batch /\ list["log"][i] = Batch + i /\ Batch + i \in Chunk
        BY <1>4, <1>7, <2>1 DEF Chunk
      <3> QED BY <1>4, <1>5, <1>6, <3>1 DEF Init
    <2> QED BY <1>2, <1>5, <2>1 DEF UseInv
  <1>11. WriteInv /\ CallInv
    <2>1. \A c \in Chunk : c # log_vec
      BY <1>5 DEF Chunk
    <2> QED BY <1>1, <1>5, <2>1 DEF WriteInv, CallInv, Calling
  <1> QED BY <1>3, <1>5, <1>8, <1>9, <1>10, <1>11, InitType DEF LogInv, CalmInv, BeforeCrash

(* Every step keeps LogInv: removals and updates end the calm, and a fault *)
(* of the program ends it too.                                             *)
LEMMA LogStep == LogInv /\ [Next]_vars => LogInv'
  <1> SUFFICES ASSUME LogInv, [Next]_vars PROVE LogInv'
    OBVIOUS
  <1>1. TypeOK /\ TailInv /\ TypeOK' /\ TailInv'
    BY TypeStep DEF LogInv
  <1> DEFINE Goal == /\ Calm' => CalmInv'
                     /\ disturbed' = 0 => pc' # "aborted"
  <1>2. CASE UNCHANGED vars
    <2>1. disturbed' = disturbed /\ pc' = pc /\ Calm' = Calm
      BY <1>2 DEF vars, ghost, Calm, Halted
    <2>2. CalmInv' = CalmInv
      BY <1>2 DEF vars, headers, entries, alloc, seg, local, rec, ghost, CalmInv, MemoryInv,
         NodesInv, BeforeCrash, AfterCrash, ListInv, UseInv, WriteInv, CallInv, ReadInv,
         RefiledInv, Used, Records, Counts, Calling
    <2> QED BY <1>1, <2>1, <2>2 DEF LogInv
  <1>3. ASSUME NEW k \in Key, Update(k) \/ Remove(k) PROVE Goal
    BY <1>1, <1>3 DEF Update, Remove, Calm, TypeOK
  <1>4. CASE Halted
    <2>1. UNCHANGED vars
      BY <1>4 DEF Next, vars, Halted, Insert, Update, Remove, Append, PutVersion, PutKey,
         GetMoreChunk, OutOfPool, LosesItsWay, TakeSegment, TakeLeafChunk, AllocLeaf, Crash,
         IgnoreRecover, OpenSegment, ReplayEntry, FinishReplay, Stopped
    <2> QED BY <1>2, <2>1
  <1>5. ASSUME disturbed # 0 PROVE disturbed' # 0
    <2>1. ASSUME NEW k \in Key, Insert(k) \/ Update(k) \/ Remove(k) PROVE disturbed' # 0
      BY <1>1, <1>5, <2>1 DEF Insert, Update, Remove, TypeOK
    <2>2. ASSUME Append \/ PutVersion \/ PutKey \/ GetMoreChunk
          PROVE  disturbed' # 0
      BY <1>5, <2>2 DEF Append, PutVersion, PutKey, GetMoreChunk, ghost
    <2>3. ASSUME OutOfPool \/ TakeSegment \/ TakeLeafChunk \/ AllocLeaf
          PROVE  disturbed' # 0
      BY <1>5, <2>3 DEF OutOfPool, TakeSegment, TakeLeafChunk, AllocLeaf, ghost
    <2>4. ASSUME Crash \/ IgnoreRecover \/ OpenSegment \/ ReplayEntry \/ FinishReplay
          PROVE  disturbed' # 0
      BY <1>5, <2>4 DEF Crash, IgnoreRecover, OpenSegment, ReplayEntry, FinishReplay, ghost
    <2>5. ASSUME UNCHANGED vars
          PROVE  disturbed' # 0
      BY <1>5, <2>5 DEF vars, ghost
    <2> QED BY <2>1, <2>2, <2>3, <2>4, <2>5 DEF Next, Stopped
  <1>6. ASSUME Calm, Next PROVE Goal
    <2>1. CalmInv
      BY <1>6 DEF LogInv
    <2>2. ASSUME NEW k \in Key, Insert(k) PROVE Goal
      BY <1>1, <1>6, <2>1, <2>2, InsertStep DEF Insert
    <2>3. ASSUME Append PROVE Goal
      BY <1>1, <1>6, <2>1, <2>3, AppendStep DEF Append, Calm, Halted
    <2>4. ASSUME PutVersion PROVE Goal
      BY <1>1, <1>6, <2>1, <2>4, PutVersionStep DEF PutVersion
    <2>5. ASSUME PutKey PROVE Goal
      BY <1>1, <1>6, <2>1, <2>5, PutKeyStep DEF PutKey
    <2>6. ASSUME GetMoreChunk PROVE Goal
      BY <1>1, <1>6, <2>1, <2>6, CarveStep DEF GetMoreChunk
    <2>7. ASSUME OutOfPool PROVE Goal
      BY <2>7 DEF OutOfPool, Calm, Halted
    <2>8. ASSUME TakeSegment PROVE Goal
      BY <1>1, <1>6, <2>1, <2>8, TakeSegmentStep DEF TakeSegment
    <2>9. ASSUME TakeLeafChunk PROVE Goal
      BY <1>1, <1>6, <2>1, <2>9, TakeLeafStep DEF TakeLeafChunk
    <2>10. ASSUME AllocLeaf PROVE Goal
      <3>1. pc' # "aborted"
        BY <2>10 DEF AllocLeaf
      <3> QED BY <1>1, <1>6, <2>1, <2>10, <3>1, AllocLeafStep
    <2>11. ASSUME Crash PROVE Goal
      BY <1>1, <1>6, <2>1, <2>11, CrashStep DEF Crash
    <2>12. ASSUME IgnoreRecover PROVE Goal
      BY <1>1, <1>6, <2>1, <2>12, RecoverStep DEF IgnoreRecover
    <2>13. ASSUME OpenSegment PROVE Goal
      BY <1>1, <1>6, <2>1, <2>13, OpenStep DEF OpenSegment
    <2>14. ASSUME ReplayEntry PROVE Goal
      BY <1>1, <1>6, <2>1, <2>14, ReplayStep
    <2>15. ASSUME FinishReplay PROVE Goal
      BY <1>1, <1>6, <2>1, <2>15, FinishStep DEF FinishReplay
    <2>16. ASSUME Stopped PROVE Goal
      BY <1>6, <2>16 DEF Stopped, Calm
    <2> QED BY <1>3, <1>6, <2>2, <2>3, <2>4, <2>5, <2>6, <2>7, <2>8, <2>9, <2>10, <2>11,
               <2>12, <2>13, <2>14, <2>15, <2>16 DEF Next
  <1>7. CASE disturbed # 0
    BY <1>1, <1>5, <1>7 DEF LogInv, Calm
  <1>8. CASE Calm /\ Next
    BY <1>1, <1>6, <1>8 DEF LogInv
  <1> QED BY <1>2, <1>4, <1>7, <1>8 DEF Calm

----------------------------------------------------------------------------
(* The theorems.                                                           *)

(* The log keeps its shape: the segments that are in use have ids of their *)
(* own, each is filled from its start, and every key that was appended has *)
(* one entry, until a key is removed or updated.                           *)
THEOREM LogInvariance == Spec => []LogInv
  <1>1. Init => LogInv
    BY InitLog
  <1>2. LogInv /\ [Next]_vars => LogInv'
    BY LogStep
  <1> QED BY <1>1, <1>2, PTL DEF Spec

(* The loop over the entries of a segment ends within the segment, even if *)
(* keys were removed or updated: append_one leaves a segment before its    *)
(* last entry, whose version therefore stays 0.                            *)
THEOREM ReplayIsBounded == Spec => []ReplayStaysInSegment
  <1>1. LogInv => ReplayStaysInSegment
    BY DEF LogInv, TailInv, ReplayStaysInSegment
  <1> QED BY <1>1, LogInvariance, PTL

(* At the end of the last segment nothing is left that was not read.       *)
LEMMA EverythingRead ==
  ASSUME TypeOK, MemoryInv, ReadInv, reading = NoChunk, unread = {}
  PROVE  replayed = Records
  <1>1. \A r \in Key \cup {Blank} : r \in replayed <=> r \in Records
    <2> TAKE r \in Key \cup {Blank}
    <2>1. NoChunk \notin Chunk
      BY PoolAssumption DEF Chunk
    <2>2. r \in replayed <=>
             \E c \in Chunk : \E s \in Slot : Counts(c, s) /\ entry_key[c][s] = r
      BY <2>1 DEF ReadInv
    <2>3. r \in Records <=>
             \E c \in Used("log") : \E s \in Slot : Counts(c, s) /\ entry_key[c][s] = r
      BY RecordsAre
    <2>4. \A c \in Chunk : \A s \in Slot : Counts(c, s) => c \in Used("log")
      BY DEF MemoryInv
    <2>5. Used("log") \subseteq Chunk
      BY DEF Used
    <2> QED BY <2>2, <2>3, <2>4, <2>5
  <1> QED BY <1>1 DEF TypeOK, Records

(* Recovery reads back what was appended: no key is missing, none is made  *)
(* up but the blank one of an entry the crash cut in half.                 *)
THEOREM LogReplayed == Spec => []LogIsReplayed
  <1>1. LogInv => LogIsReplayed
    <2> SUFFICES ASSUME LogInv, pc = "rebuilt", disturbed = 0
                 PROVE  replayed \ {Blank} = acked
      BY DEF LogIsReplayed
    <2>1. MemoryInv /\ ReadInv /\ reading = NoChunk /\ unread = {} /\ TypeOK
      BY DEF LogInv, Calm, Halted, CalmInv, BeforeCrash, AfterCrash
    <2>2. replayed = Records
      BY <2>1, EverythingRead
    <2> QED BY <2>1, <2>2 DEF MemoryInv
  <1> QED BY <1>1, LogInvariance, PTL

----------------------------------------------------------------------------
(* SegmentLog implements DurableLog, and never loses a record.             *)
(*                                                                         *)
(* Before a crash the abstract log holds the keys whose entries are        *)
(* complete, and grows when an entry gets its key.  After one it holds     *)
(* what is in the segments in use, which nothing changes any more.         *)

(* What DurableLog sees, before a crash and after it.                      *)

Mapped ==
    /\ TypeOK /\ Calm /\ CalmInv /\ end_address # NoChunk =>
          LogState = "writing" /\ LogRecords = acked /\ LogRead = {}
    /\ Calm /\ CalmInv /\ end_address = NoChunk =>
          /\ LogState = IF Recovering THEN "reading" ELSE "recovered"
          /\ LogRecords = Records /\ LogRead = replayed
    /\ disturbed = 0 /\ pc \in {"undefined", "overlap"} =>
          LogState = "stopped" /\ LogRecords = Records /\ LogRead = replayed

LEMMA MappedSo == Mapped
  <1>1. ASSUME TypeOK, Calm, CalmInv, end_address # NoChunk
        PROVE  LogState = "writing" /\ LogRecords = acked /\ LogRead = {}
    <2>1. BeforeCrash /\ MemoryInv /\ disturbed = 0 /\ ~Halted
      BY <1>1 DEF CalmInv, Calm
    <2>2. ~Recovering
      BY <1>1, <2>1 DEF Recovering, BeforeCrash
    <2>3. Blank \in Records => pc = "put_key"
      <3> SUFFICES ASSUME Blank \in Records PROVE pc = "put_key"
        OBVIOUS
      <3>1. PICK c \in Used("log"), s \in Slot : Counts(c, s) /\ entry_key[c][s] = Blank
        BY <1>1, RecordsAre
      <3> QED BY <2>1, <3>1 DEF BeforeCrash, WriteInv, Used
    <2>4. Records \ {Blank} = acked
      BY <2>1 DEF MemoryInv
    <2>5. LogRecords = acked
      BY <2>1, <2>3, <2>4 DEF LogRecords
    <2>6. LogState = "writing"
      BY <1>1, <2>1, <2>2, Zenon DEF LogState, Halted
    <2> QED BY <2>1, <2>5, <2>6 DEF LogRead, BeforeCrash
  <1>2. ASSUME Calm, CalmInv, end_address = NoChunk
        PROVE  /\ LogState = IF Recovering THEN "reading" ELSE "recovered"
               /\ LogRecords = Records /\ LogRead = replayed
    <2>1. disturbed = 0 /\ ~Halted /\ pc # "put_key"
      BY <1>2 DEF Calm, CalmInv, AfterCrash
    <2>2. LogRecords = Records
      BY <2>1 DEF LogRecords
    <2>3. LogState = IF Recovering THEN "reading" ELSE "recovered"
      BY <1>2, <2>1, Zenon DEF LogState, Halted
    <2> QED BY <2>1, <2>2, <2>3 DEF LogRead
  <1>3. ASSUME disturbed = 0, pc \in {"undefined", "overlap"}
        PROVE  LogState = "stopped" /\ LogRecords = Records /\ LogRead = replayed
    <2>1. LogRecords = Records
      BY <1>3 DEF LogRecords
    <2>2. pc \notin {"overrun", "aborted"} /\ ~Recovering
      BY <1>3 DEF Recovering
    <2>3. LogState = "stopped"
      BY <1>3, <2>2, Zenon DEF LogState
    <2> QED BY <1>3, <2>1, <2>3 DEF LogRead
  <1> QED BY <1>1, <1>2, <1>3 DEF Mapped

LEMMA MappedNext == Mapped'
  BY MappedSo, PTL

LEMMA RecordsFrame ==
  ASSUME UNCHANGED <<headers, entries>>
  PROVE  Records' = Records
  BY DEF Records, Used, Counts, headers, entries

----------------------------------------------------------------------------
(* The steps.                                                              *)

Seen == <<LogState, LogRecords, LogRead>>

(* The steps that only move the program on, while nothing is written.      *)
LEMMA PutKeyAppends ==
  ASSUME TypeOK, TypeOK', Calm, CalmInv, Calm', CalmInv', PutKey
  PROVE  Promised!Next
  <1>1. end_address # NoChunk /\ CallInv /\ key \in Key
    BY KeyAssumption DEF PutKey, CalmInv, AfterCrash, BeforeCrash, TypeOK, Calling
  <1>2. key \notin acked /\ acked' = acked \cup {key} /\ end_address' # NoChunk
    BY <1>1 DEF PutKey, CallInv, Calling, ValueLen, alloc
  <1>3. LogState = "writing" /\ LogRecords = acked /\ LogRead = {}
    BY <1>1, MappedSo DEF Mapped
  <1>4. LogState' = "writing" /\ LogRecords' = acked' /\ LogRead' = {}
    BY <1>2, MappedNext DEF Mapped
  <1>5. Promised!Append(key)
    BY <1>2, <1>3, <1>4 DEF Promised!Append
  <1> QED BY <1>1, <1>5 DEF Promised!Next

(* What the steps before a crash do that are not seen.                     *)
LEMMA BeforeStutters ==
  ASSUME TypeOK, TypeOK', Calm, CalmInv, Calm', CalmInv',
         end_address # NoChunk, end_address' # NoChunk, acked' = acked
  PROVE  UNCHANGED Seen
  <1>1. LogState = "writing" /\ LogRecords = acked /\ LogRead = {}
    BY MappedSo DEF Mapped
  <1>2. LogState' = "writing" /\ LogRecords' = acked' /\ LogRead' = {}
    BY MappedNext DEF Mapped
  <1> QED BY <1>1, <1>2 DEF Seen

(* A crash keeps every record, and an entry without a key if there is one. *)
LEMMA CrashRefines ==
  ASSUME TypeOK, TypeOK', Calm, CalmInv, Calm', CalmInv', Crash
  PROVE  Promised!Next
  <1>1. end_address' = NoChunk /\ Recovering' /\ replayed' = {}
    BY DEF Crash, Recovering
  <1>2. Records' = Records
    BY RecordsFrame DEF Crash
  <1>3. LogState' = "reading" /\ LogRecords' = Records /\ LogRead' = {}
    BY <1>1, <1>2, MappedNext DEF Mapped
  <1>4. CASE end_address # NoChunk
    <2>1. LogState = "writing" /\ LogRecords = acked /\ LogRead = {}
      BY <1>4, MappedSo DEF Mapped
    <2>2. Records \ {Blank} = acked /\ Blank \notin acked
      BY KeyAssumption DEF CalmInv, MemoryInv, TypeOK
    <2>3. LogRecords' = LogRecords \/ LogRecords' = LogRecords \cup {Blank}
      BY <1>3, <2>1, <2>2
    <2> QED BY <1>3, <2>1, <2>3 DEF Promised!Crash, Promised!Next
  <1>5. CASE end_address = NoChunk
    <2>1. LogState \in {"reading", "recovered"} /\ LogRecords = Records
      BY <1>5, MappedSo DEF Mapped
    <2> QED BY <1>3, <2>1 DEF Promised!Crash, Promised!Next
  <1> QED BY <1>4, <1>5

(* Running out of memory, or into a segment in use, leaves the log alone.  *)
LEMMA StopRefines ==
  ASSUME TypeOK, Calm, CalmInv, disturbed' = 0, pc' \in {"undefined", "overlap"},
         Records' = Records, replayed' = replayed, pc # "put_key"
  PROVE  Promised!Next
  <1>1. LogState' = "stopped" /\ LogRecords' = Records' /\ LogRead' = replayed'
    BY MappedNext DEF Mapped
  <1>2. LogRecords = Records /\ LogRead = replayed /\ LogState # "void"
    BY DEF LogRecords, LogRead, LogState, Calm, Halted
  <1> QED BY <1>1, <1>2 DEF Promised!Stop, Promised!Next

(* A segment is either one in use, which stops the log, or it is empty;    *)
(* after a recovery it is never empty.                                     *)
LEMMA TakeSegmentRefines ==
  ASSUME TypeOK, TypeOK', Calm, CalmInv, disturbed' = 0, Calm' => CalmInv', TakeSegment
  PROVE  Promised!Next \/ UNCHANGED Seen
  <1>1. Filed \in Chunk /\ Filed = list["log"][decision_id["log"]] /\ Filed # NoChunk
        /\ decision_id["log"] \in Id
    BY FiledType DEF TakeSegment, Filed
  <1>2. CASE end_address # NoChunk
    <2>1. bitmap[Filed] = 0
      BY <1>1, <1>2, PoolAssumption DEF CalmInv, BeforeCrash, UseInv, Id
    <2>2. pc' = "put_version" /\ end_address' # NoChunk /\ acked' = acked
      BY <1>2, <2>1 DEF TakeSegment, ghost
    <2>3. Calm'
      BY <2>2 DEF Calm, Halted
    <2> QED BY <1>2, <2>2, <2>3, BeforeStutters
  <1>3. CASE end_address = NoChunk
    <2>1. Filed \in Used("log")
      BY <1>1, <1>3 DEF CalmInv, AfterCrash, RefiledInv, TakeSegment
    <2>2. bitmap[Filed] = InUse /\ block_type[Filed] # "node"
      BY <2>1, UsedLog
    <2>3. pc' = "overlap"
      BY <2>2 DEF TakeSegment, InUse
    <2>4. Used("log")' = Used("log")
      <3>1. \A c \in Chunk : bitmap'[c] = bitmap[c]
        BY <1>1, <2>2 DEF TakeSegment, TypeOK
      <3>2. \A c \in Chunk : block_type'[c] = "node" <=> block_type[c] = "node"
        BY <1>1, <2>2 DEF TakeSegment, TypeOK
      <3> QED BY <3>1, <3>2 DEF Used
    <2>5. Records' = Records
      BY <2>4 DEF Records, Counts, TakeSegment, entries
    <2> QED BY <2>3, <2>5, StopRefines DEF TakeSegment, rec
  <1> QED BY <1>2, <1>3

(* A P_Leaf takes nothing from the log.                                    *)
LEMMA AllocLeafRefines ==
  ASSUME TypeOK, TypeOK', Calm, CalmInv, disturbed' = 0, Calm' => CalmInv', AllocLeaf
  PROVE  Promised!Next \/ UNCHANGED Seen
  <1>1. /\ UNCHANGED <<block_type, block_id, version, entry_key, list, page_id, end_address,
                       replayed, acked>>
        /\ pc \in {"idle", "replay"}
    BY DEF AllocLeaf, entries, rec, ghost
  <1>2. \A c \in Chunk : block_type[c] # "node" => bitmap'[c] = bitmap[c]
    BY DEF AllocLeaf, CalmInv, NodesInv, TypeOK
  <1>3. Records' = Records
    BY <1>1, <1>2 DEF Records, Used, Counts
  <1>4. CASE pc' = "undefined"
    BY <1>1, <1>3, <1>4, StopRefines
  <1>5. CASE pc' # "undefined"
    <2>1. Calm'
      BY <1>1, <1>5 DEF AllocLeaf, Calm, Halted
    <2>2. CASE end_address # NoChunk
      BY <1>1, <2>1, <2>2, BeforeStutters
    <2>3. CASE end_address = NoChunk
      <3>1. Recovering
        BY <1>1, <2>3 DEF CalmInv, AfterCrash, Recovering
      <3>2. Recovering'
        BY <1>1, <1>5, <2>3, <3>1 DEF AllocLeaf, Recovering, CalmInv, AfterCrash
      <3> QED BY <1>1, <1>3, <2>1, <2>3, <3>1, <3>2, MappedSo, MappedNext DEF Seen, Mapped
    <2> QED BY <2>2, <2>3
  <1> QED BY <1>4, <1>5

(* One round of the loop of the recovery reads one record, once.           *)
LEMMA ReplayRefines ==
  ASSUME TypeOK, TypeOK', TailInv', Calm, CalmInv, disturbed' = 0, pc' # "aborted",
         Calm' => CalmInv', ReplayEntry
  PROVE  Promised!Next \/ UNCHANGED Seen
  <1>1. /\ UNCHANGED <<headers, entries, end_address>>
        /\ pc = "replay" /\ reading # NoChunk
    BY DEF ReplayEntry, alloc
  <1>2. end_address = NoChunk /\ ReadInv
    BY <1>1 DEF CalmInv, BeforeCrash, AfterCrash
  <1>3. pc' = "replay"
    BY <1>1 DEF ReplayEntry, TailInv
  <1>4. Calm' /\ Recovering /\ Recovering' /\ Records' = Records
    BY <1>1, <1>3, RecordsFrame DEF Calm, Halted, Recovering
  <1>5. LogState = "reading" /\ LogRecords = Records /\ LogRead = replayed
    BY <1>2, <1>4, MappedSo DEF Mapped
  <1>6. LogState' = "reading" /\ LogRecords' = Records /\ LogRead' = replayed'
    BY <1>1, <1>2, <1>4, MappedNext DEF Mapped
  <1>7. CASE replayed' = replayed
    BY <1>5, <1>6, <1>7 DEF Seen
  <1>8. CASE replayed' # replayed
    <2> DEFINE r == entry_key[reading][pos]
    <2>1. /\ pos \in Slot /\ Counts(reading, pos)
          /\ r \notin replayed /\ replayed' = replayed \cup {r}
      BY <1>3, <1>8 DEF ReplayEntry, Counts
    <2>2. reading \in Used("log") /\ reading \in Chunk
      BY <1>1, <1>2 DEF ReadInv, TypeOK
    <2>3. r \in Key \cup {Blank}
      BY <2>1, <2>2 DEF TypeOK
    <2>4. r \in Records
      BY <2>1, <2>2, <2>3 DEF Records
    <2>5. Promised!Read(r)
      BY <1>5, <1>6, <2>1, <2>4 DEF Promised!Read
    <2> QED BY <2>3, <2>5 DEF Promised!Next
  <1> QED BY <1>7, <1>8

(* The end of the last segment is the end of the recovery.                 *)
LEMMA FinishRefines ==
  ASSUME TypeOK, TypeOK', Calm, CalmInv, Calm', CalmInv', FinishReplay
  PROVE  Promised!Next
  <1>1. /\ UNCHANGED <<headers, entries, end_address, replayed>>
        /\ pc = "replay" /\ pc' = "rebuilt" /\ reading = NoChunk /\ unread = {}
    BY DEF FinishReplay, alloc, rec
  <1>2. end_address = NoChunk /\ ReadInv /\ MemoryInv
    BY <1>1 DEF CalmInv, BeforeCrash, AfterCrash
  <1>3. LogState = "reading" /\ LogRecords = Records /\ LogRead = replayed
    BY <1>1, <1>2, MappedSo DEF Recovering, Mapped
  <1>4. LogState' = "recovered" /\ LogRecords' = Records /\ LogRead' = replayed
    BY <1>1, <1>2, MappedNext, RecordsFrame DEF Recovering, Mapped
  <1>5. replayed = Records
    BY <1>1, <1>2, EverythingRead
  <1> QED BY <1>3, <1>4, <1>5 DEF Promised!Recover, Promised!Next

(* The steps after a crash that write nothing and are not seen.            *)
LEMMA AfterStutters ==
  ASSUME Calm, CalmInv, Calm', CalmInv', end_address = NoChunk,
         UNCHANGED <<headers, entries, end_address, replayed>>,
         Recovering' <=> Recovering
  PROVE  UNCHANGED Seen
  <1>1. LogState' = LogState
    BY MappedSo, MappedNext DEF Mapped
  <1> QED BY <1>1, MappedSo, MappedNext, RecordsFrame DEF Seen, Mapped

(* A program that has stopped does nothing; a log stays disturbed; and no  *)
(* chunk for P_Leaves is found after a crash.                              *)
LEMMA HaltedStays ==
  ASSUME Halted, [Next]_vars
  PROVE  UNCHANGED vars
  BY DEF Next, Halted, Insert, Update, Remove, Append, PutVersion, PutKey, GetMoreChunk,
     OutOfPool, LosesItsWay, TakeSegment, TakeLeafChunk, AllocLeaf, Crash, IgnoreRecover,
     OpenSegment, ReplayEntry, FinishReplay, Stopped

LEMMA DisturbedStays ==
  ASSUME TypeOK, [Next]_vars, disturbed' = 0
  PROVE  disturbed = 0
  <1>1. ASSUME NEW k \in Key, Insert(k) \/ Update(k) \/ Remove(k) PROVE disturbed = 0
    BY <1>1 DEF Insert, Update, Remove, TypeOK
  <1>2. ASSUME Append \/ PutVersion \/ PutKey \/ GetMoreChunk PROVE disturbed = 0
    BY <1>2 DEF Append, PutVersion, PutKey, GetMoreChunk, ghost
  <1>3. ASSUME OutOfPool \/ TakeSegment \/ TakeLeafChunk \/ AllocLeaf PROVE disturbed = 0
    BY <1>3 DEF OutOfPool, TakeSegment, TakeLeafChunk, AllocLeaf, ghost
  <1>4. ASSUME Crash \/ IgnoreRecover \/ OpenSegment \/ ReplayEntry \/ FinishReplay
        PROVE  disturbed = 0
    BY <1>4 DEF Crash, IgnoreRecover, OpenSegment, ReplayEntry, FinishReplay, ghost
  <1>5. ASSUME UNCHANGED vars PROVE disturbed = 0
    BY <1>5 DEF vars, ghost
  <1> QED BY <1>1, <1>2, <1>3, <1>4, <1>5 DEF Next, Stopped

LEMMA NoLeafChunkAfter ==
  ASSUME TypeOK, CalmInv, TakeLeafChunk
  PROVE  end_address # NoChunk
  <1> SUFFICES ASSUME end_address = NoChunk PROVE FALSE
    OBVIOUS
  <1>1. /\ Filed = list["node"][decision_id["node"]] /\ Filed # NoChunk
        /\ decision_id["node"] \in Id /\ want = "node"
    BY DEF TakeLeafChunk, Filed
  <1>2. RefiledInv /\ pc = "get_free_block"
    BY DEF TakeLeafChunk, CalmInv, AfterCrash
  <1> QED BY <1>1, <1>2, PoolAssumption DEF RefiledInv, Id

(* A step that promises nothing more, for the log was disturbed.           *)
LEMMA VoidRefines ==
  ASSUME disturbed' # 0
  PROVE  Promised!Next
  <1>1. LogState' = "void"
    BY Zenon DEF LogState
  <1>2. LogRecords' = {} /\ LogRead' = {}
    BY DEF LogRecords, LogRead
  <1> QED BY <1>1, <1>2 DEF Promised!Void, Promised!Next

(* Every step of the program is a step of DurableLog, or is not seen.      *)
LEMMA NextRefines ==
  ASSUME LogInv, LogInv', [Next]_vars
  PROVE  Promised!Next \/ UNCHANGED Seen
  <1> DEFINE Goal == Promised!Next \/ UNCHANGED Seen
  <1>1. CASE UNCHANGED vars
    <2>1. Records' = Records
      BY <1>1, RecordsFrame DEF vars
    <2>2. UNCHANGED <<pc, want, end_address, disturbed, replayed>>
      BY <1>1 DEF vars, local, alloc, ghost, rec
    <2>3. UNCHANGED <<LogRecords, LogRead>>
      BY <2>1, <2>2 DEF LogRecords, LogRead
    <2>4. LogState' = LogState
      BY <2>2, Zenon DEF LogState, Recovering
    <2> QED BY <2>3, <2>4 DEF Seen
  <1>2. CASE disturbed' # 0
    BY <1>2, VoidRefines
  <1>3. CASE Halted
    BY <1>1, <1>3, HaltedStays
  <1>4. ASSUME Next, ~Halted, disturbed' = 0 PROVE Goal
    <2>1. /\ TypeOK /\ TailInv /\ TypeOK' /\ TailInv'
          /\ Calm' => CalmInv'
          /\ pc' # "aborted"
      BY <1>4 DEF LogInv
    <2>2. Calm /\ CalmInv /\ disturbed = 0
      BY <1>4, <2>1, DisturbedStays DEF Calm, LogInv
    <2>3. ASSUME NEW k \in Key, Insert(k) PROVE Goal
      <3>1. UNCHANGED <<headers, entries, end_address, replayed, acked>> /\ Calm'
        BY <2>2, <2>3 DEF Insert, alloc, rec, Calm, Halted
      <3>2. CASE end_address # NoChunk
        BY <2>1, <2>2, <3>1, <3>2, BeforeStutters
      <3>3. CASE end_address = NoChunk
        <4>1. ~Recovering /\ ~Recovering'
          BY <2>3, <3>3 DEF Insert, Recovering
        <4> QED BY <2>1, <2>2, <3>1, <3>3, <4>1, AfterStutters
      <3> QED BY <3>2, <3>3
    <2>4. ASSUME Append PROVE Goal
      <3>1. UNCHANGED <<headers, entries, end_address, replayed, acked>> /\ Calm'
        BY <2>2, <2>4 DEF Append, alloc, rec, ghost, Calm, Halted
      <3>2. CASE end_address # NoChunk
        BY <2>1, <2>2, <3>1, <3>2, BeforeStutters
      <3>3. CASE end_address = NoChunk
        <4>1. ~Recovering /\ ~Recovering'
          BY <2>4, <3>3 DEF Append, Recovering
        <4> QED BY <2>1, <2>2, <3>1, <3>3, <4>1, AfterStutters
      <3> QED BY <3>2, <3>3
    <2>5. ASSUME PutVersion PROVE Goal
      <3>1. end_address # NoChunk
        BY <2>2, <2>5 DEF PutVersion, CalmInv, AfterCrash
      <3>2. UNCHANGED <<end_address, acked>> /\ Calm'
        BY <2>2, <2>5 DEF PutVersion, alloc, ghost, Calm, Halted
      <3> QED BY <2>1, <2>2, <3>1, <3>2, BeforeStutters
    <2>6. ASSUME PutKey PROVE Goal
      <3>1. Calm'
        BY <1>4, <2>6 DEF PutKey, Calm, Halted
      <3> QED BY <2>1, <2>2, <2>6, <3>1, PutKeyAppends
    <2>7. ASSUME GetMoreChunk PROVE Goal
      <3>1. end_address # NoChunk /\ end_address' # NoChunk /\ acked' = acked /\ Calm'
        BY <1>4, <2>1, <2>7, PoolAssumption DEF GetMoreChunk, TypeOK, ghost, Calm, Halted
      <3> QED BY <2>1, <2>2, <3>1, BeforeStutters
    <2>8. ASSUME OutOfPool PROVE Goal
      <3>1. /\ Records' = Records /\ replayed' = replayed
            /\ pc' = "undefined" /\ pc # "put_key"
        BY <2>8, RecordsFrame DEF OutOfPool, LosesItsWay, rec
      <3> QED BY <1>4, <2>1, <2>2, <3>1, StopRefines
    <2>9. ASSUME TakeSegment PROVE Goal
      BY <1>4, <2>1, <2>2, <2>9, TakeSegmentRefines
    <2>10. ASSUME TakeLeafChunk PROVE Goal
      <3>1. end_address # NoChunk
        BY <2>1, <2>2, <2>10, NoLeafChunkAfter
      <3>2. UNCHANGED <<end_address, acked>> /\ Calm'
        BY <2>2, <2>10 DEF TakeLeafChunk, alloc, ghost, Calm, Halted
      <3> QED BY <2>1, <2>2, <3>1, <3>2, BeforeStutters
    <2>11. ASSUME AllocLeaf PROVE Goal
      BY <1>4, <2>1, <2>2, <2>11, AllocLeafRefines
    <2>12. ASSUME Crash PROVE Goal
      <3>1. Calm'
        BY <1>4, <2>12 DEF Crash, Calm, Halted
      <3> QED BY <2>1, <2>2, <2>12, <3>1, CrashRefines
    <2>13. ASSUME IgnoreRecover \/ OpenSegment PROVE Goal
      <3>1. /\ UNCHANGED <<headers, entries, end_address, replayed>>
            /\ pc \in {"scan", "replay"} /\ pc' = "replay" /\ Calm'
        BY <1>4, <2>13 DEF IgnoreRecover, OpenSegment, alloc, Calm, Halted
      <3>2. end_address = NoChunk /\ Recovering /\ Recovering'
        BY <2>2, <3>1 DEF CalmInv, BeforeCrash, Recovering
      <3> QED BY <2>1, <2>2, <3>1, <3>2, AfterStutters
    <2>14. ASSUME ReplayEntry PROVE Goal
      BY <1>4, <2>1, <2>2, <2>14, ReplayRefines
    <2>15. ASSUME FinishReplay PROVE Goal
      <3>1. Calm'
        BY <1>4, <2>15 DEF FinishReplay, Calm, Halted
      <3> QED BY <2>1, <2>2, <2>15, <3>1, FinishRefines
    <2>16. ASSUME NEW k \in Key, Update(k) \/ Remove(k) PROVE Goal
      BY <1>4, <2>1, <2>16 DEF Update, Remove, TypeOK
    <2> QED BY <1>4, <2>3, <2>4, <2>5, <2>6, <2>7, <2>8, <2>9, <2>10, <2>11, <2>12, <2>13,
               <2>14, <2>15, <2>16 DEF Next, Stopped
  <1> QED BY <1>1, <1>2, <1>3, <1>4

(* At first the log is empty and being written.                            *)
LEMMA InitRefines == Init => Promised!Init
  <1> SUFFICES ASSUME Init PROVE Promised!Init
    OBVIOUS
  <1>1. LogInv /\ pc = "idle" /\ disturbed = 0 /\ end_address = 2 * Batch /\ acked = {}
    BY InitLog DEF Init
  <1>2. end_address # NoChunk /\ Calm /\ CalmInv /\ TypeOK
    BY <1>1, PoolAssumption DEF Calm, Halted, LogInv
  <1> QED BY <1>1, <1>2, MappedSo DEF Mapped, Promised!Init

(* One thread's log, in its chunks, is a set of records that grows one by  *)
(* one, survives a crash, and is read back record by record.               *)
THEOREM LogRefinement == Spec => ImplementsDurableLog
  <1>1. LogInv /\ LogInv' /\ [Next]_vars => [Promised!Next]_<<LogState, LogRecords, LogRead>>
    BY NextRefines DEF Seen
  <1> QED BY <1>1, InitRefines, LogInvariance, PTL DEF Spec, ImplementsDurableLog, Promised!Spec
----------------------------------------------------------------------------
(* Records stay where they are.                                            *)

Stays(c, s) ==
    /\ c \in Used("log")'
    /\ block_id'[c] = block_id[c]
    /\ version'[c][s] = version[c][s]
    /\ entry_key'[c][s] = entry_key[c][s]

(* Headers are written to chunks that hold no log, and entries behind the  *)
(* last record of the segment that is being written.                       *)
LEMMA StayStep ==
  ASSUME LogInv, [Next]_vars, NEW c \in Used("log"), NEW s \in Slot,
         Counts(c, s), entry_key[c][s] # Blank, disturbed' = 0, pc' # "overlap"
  PROVE  Stays(c, s)
  <1>1. TypeOK /\ TailInv /\ disturbed = 0 /\ c \in Chunk
    BY DisturbedStays DEF LogInv, Used
  <1>2. block_type[c] # "node" /\ bitmap[c] = InUse
    BY UsedLog
  <1>3. ASSUME UNCHANGED <<block_type, block_id, bitmap, version, entry_key>>
        PROVE  Stays(c, s)
    BY <1>3 DEF Stays, Used
  <1>4. CASE Halted
    BY <1>3, <1>4, HaltedStays DEF vars, headers, entries
  <1>5. ASSUME ~Halted, Next PROVE Stays(c, s)
    <2>1. CalmInv
      BY <1>1, <1>5 DEF LogInv, Calm
    <2>2. ASSUME NEW k \in Key, Insert(k) PROVE Stays(c, s)
      BY <1>3, <2>2 DEF Insert, headers, entries
    <2>3. ASSUME NEW k \in Key, Update(k) \/ Remove(k) PROVE Stays(c, s)
      BY <1>1, <2>3 DEF Update, Remove, TypeOK
    <2>4. CASE Append \/ OutOfPool \/ Crash
      BY <1>3, <2>4 DEF Append, OutOfPool, Crash, headers, entries
    <2>5. CASE IgnoreRecover \/ OpenSegment \/ ReplayEntry \/ FinishReplay \/ Stopped
      BY <1>3, <2>5 DEF IgnoreRecover, OpenSegment, ReplayEntry, FinishReplay, Stopped,
         vars, headers, entries
    <2>6. CASE PutVersion
      <3>1. WriteInv
        BY <2>1, <2>6 DEF PutVersion, CalmInv, BeforeCrash, AfterCrash
      <3>2. c # log_vec \/ s # temp_offset
        BY <1>1, <2>6, <3>1 DEF PutVersion, WriteInv, TypeOK, Slot
      <3>3. version'[c][s] = version[c][s]
        BY <1>1, <2>6, <3>2 DEF PutVersion, TypeOK
      <3> QED BY <2>6, <3>3 DEF PutVersion, Stays, Used, headers
    <2>7. CASE PutKey
      <3>1. entry_key[log_vec][temp_offset] = Blank
        BY <2>1, <2>7 DEF PutKey, CalmInv, BeforeCrash, AfterCrash, WriteInv
      <3>2. entry_key'[c][s] = entry_key[c][s]
        BY <1>1, <2>7, <3>1 DEF PutKey, TypeOK
      <3> QED BY <2>7, <3>2 DEF PutKey, Stays, Used, headers
    <2>8. CASE GetMoreChunk
      <3>1. ListInv /\ UseInv /\ end_address \in Nat
        BY <1>1, <2>1, <2>8 DEF GetMoreChunk, CalmInv, BeforeCrash, TypeOK
      <3>2. PICK i \in Id : list["log"][i] = c
        BY <3>1 DEF UseInv
      <3>3. c # NoChunk
        BY <1>1, PoolAssumption DEF Chunk
      <3>4. c < end_address /\ c \in Nat
        <4>1. c < end_address
          BY <3>1, <3>2, <3>3 DEF ListInv, Kind
        <4> QED BY <1>1, <4>1, PoolAssumption DEF Chunk
      <3>5. c \notin end_address .. end_address + Batch - 1
        BY <3>1, <3>4, PoolAssumption
      <3>6. /\ block_type'[c] = block_type[c] /\ bitmap'[c] = bitmap[c]
            /\ block_id'[c] = block_id[c]
        BY <1>1, <2>8, <3>5 DEF GetMoreChunk
      <3> QED BY <1>1, <1>2, <2>8, <3>6 DEF GetMoreChunk, Stays, Used, entries
    <2>9. CASE TakeSegment
      <3>1. bitmap[Filed] = 0 /\ Filed # c
        BY <1>2, <2>9 DEF TakeSegment, InUse
      <3>2. /\ block_type'[c] = block_type[c] /\ bitmap'[c] = bitmap[c]
            /\ block_id'[c] = block_id[c]
        BY <1>1, <2>9, <3>1 DEF TakeSegment, TypeOK
      <3> QED BY <1>1, <1>2, <2>9, <3>2 DEF TakeSegment, Stays, Used, entries
    <2>10. CASE TakeLeafChunk
      <3>1. block_type[Filed] = "node"
        BY <2>1, <2>10, PoolAssumption DEF TakeLeafChunk, Filed, CalmInv, NodesInv
      <3>2. /\ block_type'[c] = block_type[c] /\ bitmap'[c] = bitmap[c]
            /\ block_id'[c] = block_id[c]
        BY <1>1, <1>2, <2>10, <3>1 DEF TakeLeafChunk, TypeOK
      <3> QED BY <1>1, <1>2, <2>10, <3>2 DEF TakeLeafChunk, Stays, Used, entries
    <2>11. CASE AllocLeaf
      <3>1. bitmap'[c] = bitmap[c]
        BY <1>1, <1>2, <2>1, <2>11 DEF AllocLeaf, CalmInv, NodesInv, TypeOK
      <3> QED BY <1>1, <1>2, <2>11, <3>1 DEF AllocLeaf, Stays, Used, entries
    <2> QED BY <1>5, <2>2, <2>3, <2>4, <2>5, <2>6, <2>7, <2>8, <2>9, <2>10, <2>11 DEF Next
  <1>6. CASE UNCHANGED vars
    BY <1>3, <1>6 DEF vars, headers, entries
  <1> QED BY <1>4, <1>5, <1>6

(* A record that is in the log is not written to again, and the chunk it   *)
(* is in stays that of a segment, by crashes and recoveries too, as long   *)
(* as nothing is removed or updated.                                       *)
THEOREM RecordsRemain == Spec => RecordsStay
  <1>1. LogInv /\ [Next]_vars =>
           [\A c \in Used("log"), s \in Slot :
              Counts(c, s) /\ entry_key[c][s] # Blank /\ disturbed' = 0 /\ pc' # "overlap" =>
                 /\ c \in Used("log")'
                 /\ block_id'[c] = block_id[c]
                 /\ version'[c][s] = version[c][s]
                 /\ entry_key'[c][s] = entry_key[c][s]]_vars
    BY StayStep DEF Stays
  <1> QED BY <1>1, LogInvariance, PTL DEF Spec, RecordsStay
=============================================================================
