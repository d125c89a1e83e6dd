------------------------------- MODULE Engine -------------------------------
(***************************************************************************)
(* The log-structured storage engine of im-storage                         *)
(* (crates/im-storage/src/engine.rs): an active segment file with its      *)
(* memtable, sealed segments, compaction, and recovery after a crash.      *)
(*                                                                         *)
(* A segment file is a sequence of frames. Every frame carries its length  *)
(* and checksum, so a reader tells a frame that a crash cut off from a     *)
(* whole one, and stops there. An offset in a file is the number of the    *)
(* frame that starts there.                                                *)
(***************************************************************************)
EXTENDS Integers, FiniteSets, SequencesExt

CONSTANTS
  Keys,              \* numbers, for the order of the BTreeMap; the length of a frame
                     \* is a u32, so there are finitely many
  Values,
  None,              \* no record of the key
  Nil,               \* KIND_DELETE; also the answer "not found"
  SEAL_THRESHOLD,    \* 1000 in the code
  MaxOps,            \* bound: puts and deletes
  MaxCompacts,       \* bound: compactions
  MaxEngineCrashes,  \* bound: crashes
  WriteAfterCompact, \* whether the store is written between a compaction and the next open
  RemoveMayFail      \* whether the file system may refuse to remove a file

ASSUME EngineAssumption ==
  /\ Keys \subseteq Nat /\ IsFiniteSet(Keys)
  /\ None # Nil /\ None \notin Values /\ Nil \notin Values
  /\ SEAL_THRESHOLD \in Nat \ {0}
  /\ MaxOps \in Nat /\ MaxCompacts \in Nat /\ MaxEngineCrashes \in Nat
  /\ WriteAfterCompact \in BOOLEAN /\ RemoveMayFail \in BOOLEAN

NoRecords == [k \in Keys |-> None]

VARIABLES
  segmentFiles, \* segment files: id -> frames
  inUse,        \* whether a process has the store open
  segments,     \* sealed segments with their index, oldest first
  active,       \* file the writer appends to
  count,        \* records in the active segment
  memtable,
  next_segment,
  todo,         \* old segments compact has yet to remove
  compacted,    \* whether the open store has been compacted
  call,         \* history: the last put or delete, numbered
  compacts, engineCrashes

engineVars == <<segmentFiles, inUse, segments, active, count, memtable, next_segment,
          todo, compacted, call, compacts, engineCrashes>>

\* A frame: the record of a key, whole or cut off.
encode_frame(k, r) == [key |-> k, record |-> r, whole |-> TRUE]

Torn(frame) == [frame EXCEPT !.whole = FALSE]

\* Reading at an offset gives nothing at the end of the file and at a frame
\* whose length or checksum is wrong.
read_frame_at(file, n) ==
  IF n \in 1..Len(file) /\ file[n].whole THEN <<file[n]>> ELSE << >>

\* The frames a scan of the file meets before it stops.
GoodFrames(file) ==
  {n \in 1..Len(file) : \A i \in 1..n : read_frame_at(file, i) # << >>}

\* build_index: the offset of the last good frame of each key, 0 for a key without.
build_index(file) ==
  LET frames(k) == {n \in GoodFrames(file) : file[n].key = k}
  IN  [k \in Keys |-> IF frames(k) = {} THEN 0 ELSE Max(frames(k))]

read_record_at(file, n) == Head(read_frame_at(file, n)).record

\* replay: the memtable of the good frames, the last one of a key stays.
replay(file) ==
  [k \in Keys |-> LET n == build_index(file)[k]
                  IN  IF n = 0 THEN None ELSE read_record_at(file, n)]

Visible(r) == IF r = None THEN Nil ELSE r

SealedSegment(id, file) == [id |-> id, index |-> build_index(file)]

\* The segments whose index has the key.
Holding(segs, k) == {i \in 1..Len(segs) : segs[i].index[k] # 0}

RecordIn(segment, k) == read_record_at(segmentFiles[segment.id], segment.index[k])

\* get: the memtable, then the sealed segments from new to old.
get(k) ==
  IF memtable[k] # None THEN memtable[k]
  ELSE IF Holding(segments, k) = {} THEN Nil
  ELSE RecordIn(segments[Max(Holding(segments, k))], k)

\* What is in the map after the segments have been poured into it from old to
\* new: a record that no later segment replaces.
Poured(segs, k) ==
  IF Holding(segs, k) = {} THEN None
  ELSE LET last == CHOOSE i \in Holding(segs, k) :
                     \A j \in (i + 1)..Len(segs) : segs[j].index[k] = 0
       IN  RecordIn(segs[last], k)

\* scan_prefix pours the segments and then the memtable into one map and
\* leaves the tombstones out.
scan_prefix(k) ==
  Visible(IF memtable[k] # None THEN memtable[k] ELSE Poured(segments, k))

\* The elements of a finite set of numbers, smallest first.
Ascending(S) ==
  [n \in 1..Cardinality(S) |-> CHOOSE x \in S : Cardinality({y \in S : y < x}) = n - 1]

\* All segment files in order of their ids.
AllFiles(d) == Ascending(DOMAIN d)

\* The id of the file a recovery opens for writing.
FreshId(d) ==
  IF DOMAIN d = {} THEN 0 ELSE AllFiles(d)[Cardinality(DOMAIN d)] + 1

NewFile(d, id, content) ==
  [i \in DOMAIN d \cup {id} |-> IF i = id THEN content ELSE d[i]]

\* A store opened on an empty directory.
EngineInit ==
  /\ segmentFiles = [i \in {0} |-> << >>]
  /\ inUse = TRUE
  /\ segments = << >>
  /\ active = 0
  /\ count = 0
  /\ memtable = NoRecords
  /\ next_segment = 1
  /\ todo = << >>
  /\ compacted = FALSE
  /\ call = [n |-> 0, key |-> None, record |-> None]
  /\ compacts = 0 /\ engineCrashes = 0

Ready == inUse /\ todo = << >>

MayWrite == Ready /\ call.n < MaxOps /\ (compacted => WriteAfterCompact)

Called(k, r) == call' = [n |-> call.n + 1, key |-> k, record |-> r]

\* append: the frame goes to the active file, then into the memtable.
Appended(frame) == [segmentFiles EXCEPT ![active] = Append(@, frame)]

\* seal, on the files d: the file numbered next_segment - 1 becomes a sealed
\* segment, a new file becomes the active one.
seal(d) ==
  /\ segments' = Append(segments, SealedSegment(next_segment - 1, d[next_segment - 1]))
  /\ memtable' = NoRecords
  /\ active' = next_segment
  /\ segmentFiles' = NewFile(d, next_segment, << >>)
  /\ next_segment' = next_segment + 1
  /\ count' = 0

Put(k, v) ==
  /\ MayWrite
  /\ \/ /\ count + 1 < SEAL_THRESHOLD
        /\ segmentFiles' = Appended(encode_frame(k, v))
        /\ memtable' = [memtable EXCEPT ![k] = v]
        /\ count' = count + 1
        /\ UNCHANGED <<segments, active, next_segment>>
     \/ /\ count + 1 >= SEAL_THRESHOLD
        /\ seal(Appended(encode_frame(k, v)))
  /\ Called(k, v)
  /\ UNCHANGED <<inUse, todo, compacted, compacts, engineCrashes>>

\* delete appends a tombstone and never seals.
Delete(k) ==
  /\ MayWrite
  /\ segmentFiles' = Appended(encode_frame(k, Nil))
  /\ memtable' = [memtable EXCEPT ![k] = Nil]
  /\ count' = count + 1
  /\ Called(k, Nil)
  /\ UNCHANGED <<inUse, segments, active, next_segment, todo, compacted,
                 compacts, engineCrashes>>

\* The sealed segments that compact merges, after it has sealed the active one.
ToMerge ==
  Append(segments, SealedSegment(next_segment - 1, segmentFiles[next_segment - 1]))

\* The frames of the merged segment: the live values in the order of the keys.
Merged ==
  LET record(k) == Poured(ToMerge, k)
      live == Ascending({k \in Keys : record(k) \in Values})
  IN  [n \in 1..Len(live) |-> encode_frame(live[n], record(live[n]))]

\* The files once compact has sealed the active one and written f.
Compacting(f) == NewFile(NewFile(segmentFiles, next_segment, << >>), next_segment + 1, f)

\* compact: seal, write the merged segment, make it the only sealed one. The
\* old files are removed one by one.
compact ==
  /\ Ready /\ compacts < MaxCompacts /\ compacts' = compacts + 1
  /\ segmentFiles' = Compacting(Merged)
  /\ active' = next_segment
  /\ segments' = <<SealedSegment(next_segment + 1, Merged)>>
  /\ next_segment' = next_segment + 2
  /\ todo' = [i \in 1..Len(ToMerge) |-> ToMerge[i].id]
  /\ memtable' = NoRecords /\ count' = 0
  /\ compacted' = TRUE
  /\ UNCHANGED <<inUse, call, engineCrashes>>

\* remove_file, its failure ignored; the file may be gone already.
RemoveOld ==
  /\ inUse /\ todo # << >>
  /\ todo' = Tail(todo)
  /\ \/ segmentFiles' = [i \in DOMAIN segmentFiles \ {Head(todo)} |-> segmentFiles[i]]
     \/ RemoveMayFail /\ UNCHANGED segmentFiles
  /\ UNCHANGED <<inUse, segments, active, count, memtable, next_segment,
                 compacted, call, compacts, engineCrashes>>

\* The process is gone and with it everything but the files.
Dies ==
  /\ engineCrashes < MaxEngineCrashes /\ engineCrashes' = engineCrashes + 1
  /\ inUse' = FALSE
  /\ segments' = << >> /\ memtable' = NoRecords
  /\ active' = 0 /\ count' = 0 /\ next_segment' = 0
  /\ todo' = << >> /\ compacted' = FALSE
  /\ UNCHANGED call

EngineCrash ==
  /\ inUse
  /\ Dies
  /\ UNCHANGED <<segmentFiles, compacts>>

\* A crash inside append: the last frame of the active file is cut off.
CrashInAppend(k, r) ==
  /\ MayWrite
  /\ Dies
  /\ segmentFiles' = Appended(Torn(encode_frame(k, r)))
  /\ UNCHANGED compacts

\* A crash while compact writes its segment: the file ends anywhere, in the
\* middle of a frame too.
CrashInCompact ==
  /\ Ready /\ compacts < MaxCompacts /\ compacts' = compacts + 1
  /\ Dies
  /\ \E n \in 0..Len(Merged) :
       \/ segmentFiles' = Compacting(SubSeq(Merged, 1, n))
       \/ /\ n > 0
          /\ segmentFiles' = Compacting([SubSeq(Merged, 1, n) EXCEPT ![n] = Torn(@)])

\* The segments of a recovery: every file with its index.
Sealed ==
  LET ids == AllFiles(segmentFiles)
  IN  [n \in 1..Len(ids) |-> SealedSegment(ids[n], segmentFiles[ids[n]])]

\* Recovery makes the file after the last one the active one. If it exists it
\* is replayed, and cut off after its last good frame.
OpenActive(id) ==
  LET kept == IF id \in DOMAIN segmentFiles
              THEN SubSeq(segmentFiles[id], 1, Cardinality(GoodFrames(segmentFiles[id])))
              ELSE << >>
  IN  /\ active' = id
      /\ segmentFiles' = NewFile(segmentFiles, id, kept)
      /\ next_segment' = id + 1
      /\ memtable' = replay(kept)
      /\ count' = Cardinality({k \in Keys : replay(kept)[k] # None})

\* A recovery that leaves out the file that was active.
recover_SkipLast ==
  /\ ~inUse
  /\ inUse' = TRUE
  /\ segments' = Front(Sealed)
  /\ OpenActive(FreshId(segmentFiles))
  /\ UNCHANGED <<todo, compacted, call, compacts, engineCrashes>>

\* recover: every file is a sealed segment, a new file is the active one.
recover ==
  /\ ~inUse
  /\ inUse' = TRUE
  /\ segments' = Sealed
  /\ OpenActive(FreshId(segmentFiles))
  /\ UNCHANGED <<todo, compacted, call, compacts, engineCrashes>>

EngineNext ==
  \/ \E k \in Keys : Delete(k) \/ \E v \in Values : Put(k, v)
  \/ \E k \in Keys, r \in Values \cup {Nil} : CrashInAppend(k, r)
  \/ compact \/ RemoveOld \/ EngineCrash \/ CrashInCompact \/ recover

EngineSpec == EngineInit /\ [][EngineNext]_engineVars
-----------------------------------------------------------------------------
(***************************************************************************)
(* What a reader of one key, and what a scan gets now, or would get from   *)
(* the files after opening them: the newest record of all good frames.     *)
(***************************************************************************)
AfterOpen(k) ==
  LET newest == {i \in DOMAIN segmentFiles :
                   /\ replay(segmentFiles[i])[k] # None
                   /\ \A j \in DOMAIN segmentFiles :
                        j > i => replay(segmentFiles[j])[k] = None}
      records == {replay(segmentFiles[i])[k] : i \in newest}
  IN  IF records = {} THEN Nil ELSE CHOOSE r \in records : TRUE

Read == [k \in Keys |-> IF inUse THEN get(k) ELSE AfterOpen(k)]
Scanned == [k \in Keys |-> IF inUse THEN scan_prefix(k) ELSE AfterOpen(k)]

KV == INSTANCE KVStore WITH kv <- Read
KVScan == INSTANCE KVStore WITH kv <- Scanned

(***************************************************************************)
(* The engine is the map of KVStore, for get and for scan_prefix alike:    *)
(* only puts and deletes change what is read, for every crash point,       *)
(* before and after recovery.                                              *)
(***************************************************************************)
ImplementsKV == KV!Spec /\ KVScan!Spec
=============================================================================
