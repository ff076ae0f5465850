------------------------------ MODULE HDF5Writer ------------------------------
(***************************************************************************)
(* The HDF5 writers: one worker that appends ordinary frames and           *)
(* accumulates tabular ones, a flush thread, files that are rotated by age *)
(* and size, and stop().  mode tells HDF5WriterPerSource, whose files live *)
(* in an HDF5FilePool, from HDF5WriterMerge, which has one file at a time. *)
(*                                                                         *)
(* A frame has one timestamp, its row, and a value in each of its columns; *)
(* a value is the pair of the batch that brought it and its row.  A file   *)
(* holds a group for each source: its timestamps and its columns.  The     *)
(* queue in front of the worker is QueuedWriter's: Take is a pop of it.    *)
(***************************************************************************)
EXTENDS Integers, Sequences, FiniteSets

CONSTANTS
  MaxBytes,   \* max-file-size-mb, in values
  MaxAge,     \* max-file-age-s
  MaxClock,   \* bound: seconds a behaviour lasts
  MaxBatches, \* bound: batches taken by the worker
  MaxFaults   \* bound: failing file operations and ill-typed columns

\* The configuration is refused unless both limits are positive.
ASSUME RotationLimits == MaxBytes \in Nat \ {0} /\ MaxAge \in Nat \ {0}

VARIABLES
  mode,    \* which of the two writers
  phase,   \* "new", "running", "joining" in doStop(), "stopped"
  clock,   \* the system and the steady clock, in seconds
  batchSeq,   \* batches taken; batchSeq of the last one
  work,    \* the worker: source, remaining frames, end marker, control point
  file,    \* entries_ by source, or mergeFile_; Closed when there is none
  disk,    \* path -> contents
  buf,     \* tabularBuffers_["table"]
  lastTs,  \* lastTsBatchSeq_["pv"]
  flush,   \* control point of the flush thread
  fseq,    \* mergeFileSeq_
  faults,  \* failures so far
  given,   \* history: all values taken
  lost     \* history: values that can no longer reach a file, by reason

hdf5Vars == <<mode, phase, clock, batchSeq, work, file, disk, buf, lastTs, flush, fseq,
          faults, given, lost>>

Columns == {"x", "y"}
SourceNames == {"pv", "table"}
Keys == SourceNames \cup {"merged"}
Reasons == {"overwritten", "failed", "unknown", "repeated", "skipped"}
Fill == <<0, 0>>
Closed == [open |-> FALSE]
NoWork == [at |-> "idle"]
EmptyGroup == [ts |-> <<>>, col |-> [c \in Columns |-> <<>>], torn |-> FALSE]
EmptyFile == [s \in SourceNames |-> EmptyGroup]
EmptyBuffer == [fixed |-> FALSE, known |-> {}, ts |-> <<>>,
                rows |-> 0, round |-> 0, col |-> [c \in Columns |-> <<>>]]

HDF5Init ==
  /\ mode \in {"per_source", "merge"}
  /\ phase = "new" /\ clock = 0 /\ batchSeq = 0 /\ work = NoWork
  /\ file = [k \in Keys |-> Closed] /\ disk = <<>>
  /\ buf = EmptyBuffer /\ lastTs = 0 /\ flush = "off" /\ fseq = 0 /\ faults = 0
  /\ given = {} /\ lost = [r \in Reasons |-> {}]

\* The values a file holds, and those of the frames a worker has in hand.
Cells(content, s, c) == {<<s, c, content[s].col[c][i]>> : i \in DOMAIN content[s].col[c]}
ValuesIn(content) ==
  UNION {Cells(content, s, c) \ {<<s, c, Fill>>} : s \in SourceNames, c \in Columns}
FrameValues(w, frames) ==
  UNION {{<<w.source, c, <<w.seq, frames[i].row>>>> : c \in frames[i].cols} : i \in DOMAIN frames}
Lose(reason, values) == lost' = [lost EXCEPT ![reason] = @ \cup values]

-----------------------------------------------------------------------------
(* Files.  A path is <<stage, key, stamp>>: the per-source stamp is the     *)
(* second, the merge file's is a sequence number.                           *)

KeyOf(source) == IF mode = "merge" THEN "merged" ELSE source
Stamp == IF mode = "merge" THEN fseq ELSE clock
TempPath(key, stamp) == <<"temp", key, stamp>>
PathOf(f) == TempPath(f.key, f.stamp)
FreshFile(key) == [open |-> TRUE, key |-> key, stamp |-> Stamp, opened |-> clock, bytes |-> 0]

\* What opening does to the disk: H5F_ACC_TRUNC.
Truncated(d, key) ==
  [p \in DOMAIN d \cup {TempPath(key, Stamp)} |->
     IF p = TempPath(key, Stamp) THEN EmptyFile ELSE d[p]]

\* rename() of a closed file to its final name replaces what has that name.
Renamed(d, f) ==
  LET final == <<"final", f.key, f.stamp>>
  IN [p \in (DOMAIN d \ {PathOf(f)}) \cup {final} |-> d[IF p = final THEN PathOf(f) ELSE p]]

\* The outcomes of close() and finalizeClosedFile(): a failing rename is
\* logged and the file keeps its temporary name.
Finalized(d, f) == {Renamed(d, f)} \cup IF faults < MaxFaults THEN {d} ELSE {}

\* What was on disk d and is no longer on disk e.
Vanished(d, e) ==
  (UNION {ValuesIn(d[p]) : p \in DOMAIN d}) \ (UNION {ValuesIn(e[p]) : p \in DOMAIN e})

NeedsRotation(f) == clock - f.opened >= MaxAge \/ f.bytes >= MaxBytes

-----------------------------------------------------------------------------
(* Start, stop and the flush thread.                                        *)

Start ==
  /\ phase = "new"
  /\ phase' = "running" /\ flush' = "loop"
  /\ IF mode = "merge"
     THEN /\ file' = [file EXCEPT !["merged"] = FreshFile("merged")]
          /\ disk' = Truncated(disk, "merged") /\ fseq' = fseq + 1
     ELSE UNCHANGED <<file, disk, fseq>>
  /\ UNCHANGED <<mode, clock, batchSeq, work, buf, lastTs, faults, given, lost>>

\* stop() has drained the queue and joined the worker; doStop() begins.
DoStop ==
  /\ phase = "running" /\ work = NoWork
  /\ phase' = "joining"
  /\ UNCHANGED <<mode, clock, batchSeq, work, file, disk, buf, lastTs, flush, fseq,
                 faults, given, lost>>

\* onHDF5Stop() once flushThread_ is joined: every open file is closed and
\* renamed, one after another.
CloseOne(k) ==
  /\ phase = "joining" /\ flush = "done"
  /\ file[k].open
  /\ file' = [file EXCEPT ![k] = Closed]
  /\ \E d \in Finalized(disk, file[k]) :
       /\ disk' = d /\ Lose("overwritten", Vanished(disk, d))
       /\ faults' = IF d = disk THEN faults + 1 ELSE faults
  /\ UNCHANGED <<mode, phase, clock, batchSeq, work, buf, lastTs, flush, fseq, given>>

OnHDF5Stop ==
  /\ phase = "joining" /\ flush = "done" /\ \A k \in Keys : ~file[k].open
  /\ phase' = "stopped"
  /\ UNCHANGED <<mode, clock, batchSeq, work, file, disk, buf, lastTs, flush, fseq,
                 faults, given, lost>>

\* pool_ or mergeFile_ is not null.
Held == IF mode = "merge" THEN file["merged"].open ELSE phase \in {"running", "joining"}

\* doFlushAll() tests the pointer, then locks and uses it.
FlushTest ==
  /\ \/ flush = "loop" /\ Held /\ flush' = "use"
     \/ flush = "loop" /\ phase = "joining" /\ flush' = "last"
     \/ flush = "last" /\ flush' = IF Held THEN "lastUse" ELSE "done"
  /\ UNCHANGED <<mode, phase, clock, batchSeq, work, file, disk, buf, lastTs, fseq,
                 faults, given, lost>>

FlushUse ==
  /\ flush \in {"use", "lastUse"}
  /\ flush' = IF ~Held THEN "nullDereference" ELSE IF flush = "use" THEN "loop" ELSE "done"
  /\ UNCHANGED <<mode, phase, clock, batchSeq, work, file, disk, buf, lastTs, fseq,
                 faults, given, lost>>

Tick ==
  /\ clock < MaxClock /\ phase = "running"
  /\ clock' = clock + 1
  /\ UNCHANGED <<mode, phase, batchSeq, work, file, disk, buf, lastTs, flush, fseq,
                 faults, given, lost>>

-----------------------------------------------------------------------------
(* The worker.                                                              *)

Frame(row, cols) == [row |-> row, cols |-> cols]

\* Batches: an ordinary one with its columns in one frame, split over two frames
\* of one row, or with two frames that have a row each, as flushChunk() of the
\* archiver reader makes them; a tabular one that continues the round or begins
\* the next; the end of a group.
Batch(seq) ==
  {[source |-> "pv", frames |-> f, end |-> FALSE] :
     f \in {<<Frame(seq, Columns)>>, <<Frame(seq, {"x"}), Frame(seq, {"y"})>>,
            <<Frame(seq, Columns), Frame(seq + 1, Columns)>>}}
  \cup {[source |-> "table", frames |-> <<Frame(r, cs)>>, end |-> FALSE] :
          r \in {IF buf.round = 0 THEN seq ELSE buf.round, seq}, cs \in SUBSET Columns}
  \cup {[source |-> "table", frames |-> <<>>, end |-> TRUE]}

Take ==
  /\ phase = "running" /\ work = NoWork /\ batchSeq < MaxBatches
  /\ batchSeq' = batchSeq + 1
  /\ \E b \in Batch(batchSeq') :
       /\ work' = [source |-> b.source, seq |-> batchSeq', frames |-> b.frames, end |-> b.end,
                   at |-> "frame"]
       /\ given' = given \cup FrameValues(work', b.frames)
  /\ UNCHANGED <<mode, phase, clock, file, disk, buf, lastTs, flush, fseq, faults, lost>>

WorkAt(point) == work' = [work EXCEPT !.at = point]
NextFrame == work' = [source |-> work.source, seq |-> work.seq, frames |-> Tail(work.frames),
                      end |-> work.end, at |-> "frame"]
Working(point) == work # NoWork /\ work.at = point

BatchDone ==
  /\ Working("frame") /\ work.frames = <<>> /\ ~work.end
  /\ work' = NoWork
  /\ UNCHANGED <<mode, phase, clock, batchSeq, file, disk, buf, lastTs, flush, fseq,
                 faults, given, lost>>

\* An exception leaves processItem(): the rest of the batch is given up and one
\* write error counted.
Fail ==
  /\ faults < MaxFaults /\ faults' = faults + 1
  /\ work' = NoWork

\* The buffer is flushed before a frame of another round, and at the end marker.
MustFlush ==
  /\ work.source = "table" /\ buf.rows > 0
  /\ work.end \/ (work.frames # <<>> /\ work.frames[1].row # buf.round)

NeedsFile == Working("frame") /\ (IF work.source = "pv" THEN work.frames # <<>> ELSE MustFlush)
Current == file[KeyOf(work.source)]

\* Disk d with the group g for source s in a file.
WithGroup(d, path, s, g) == [d EXCEPT ![path] = [t \in SourceNames |-> IF t = s THEN g ELSE @[t]]]
Tear(g) == [ts |-> g.ts, col |-> g.col, torn |-> TRUE]

\* A group is torn when a batch's timestamp and its columns end up in two files.
TornGroup(d, path) ==
  IF work.source = "pv" /\ lastTs = work.seq
  THEN WithGroup(d, path, "pv", Tear(d[path]["pv"])) ELSE d

AcquireFile ==
  /\ NeedsFile
  /\ Current.open => ~NeedsRotation(Current)
  /\ Current.open \/ mode = "merge"
  /\ WorkAt(IF Current.open THEN "ready" ELSE "noFile")
  /\ UNCHANGED <<mode, phase, clock, batchSeq, file, disk, buf, lastTs, flush, fseq,
                 faults, given, lost>>

\* HDF5FilePool::acquire(), with mutex_ held: close, rename and erase the old
\* entry, open the new one.
PoolOpened(old) ==
  LET f == FreshFile(work.source)
      e == Truncated(old, work.source)
  IN /\ file' = [file EXCEPT ![work.source] = f]
     /\ disk' = TornGroup(e, PathOf(f))
     /\ Lose("overwritten", Vanished(disk, e))
     /\ WorkAt("ready")

PoolOpen ==
  /\ mode = "per_source" /\ NeedsFile /\ ~Current.open
  /\ PoolOpened(disk)
  /\ UNCHANGED <<mode, phase, clock, batchSeq, buf, lastTs, flush, fseq, faults, given>>

PoolRotate ==
  /\ mode = "per_source" /\ NeedsFile /\ Current.open /\ NeedsRotation(Current)
  /\ LET old == TornGroup(disk, PathOf(Current))
     IN \E d \in Finalized(old, Current) :
          /\ faults' = IF d = old THEN faults + 1 ELSE faults
          /\ PoolOpened(d)
  /\ UNCHANGED <<mode, phase, clock, batchSeq, buf, lastTs, flush, fseq, given>>

\* The old entry is already erased when openFile() throws.
PoolOpenFails ==
  /\ mode = "per_source" /\ NeedsFile
  /\ Current.open => NeedsRotation(Current)
  /\ Fail
  /\ file' = [file EXCEPT ![work.source] = Closed]
  /\ disk' = IF Current.open THEN Renamed(TornGroup(disk, PathOf(Current)), Current) ELSE disk
  /\ lost' = [r \in Reasons |-> lost[r] \cup
                IF r = "overwritten" THEN Vanished(disk, disk')
                ELSE IF r = "failed" THEN FrameValues(work, work.frames) ELSE {}]
  /\ UNCHANGED <<mode, phase, clock, batchSeq, buf, lastTs, flush, fseq, given>>

\* rotateMergeFile(): mergeFile_ is null between the two critical sections.
MergeClose ==
  /\ mode = "merge" /\ NeedsFile /\ Current.open /\ NeedsRotation(Current)
  /\ LET old == TornGroup(disk, PathOf(Current))
     IN \E d \in Finalized(old, Current) :
          /\ disk' = d
          /\ faults' = IF d = old THEN faults + 1 ELSE faults
          /\ Lose("overwritten", Vanished(disk, d))
  /\ file' = [file EXCEPT !["merged"] = Closed]
  /\ WorkAt("rotating")
  /\ UNCHANGED <<mode, phase, clock, batchSeq, buf, lastTs, flush, fseq, given>>

MergeOpen ==
  /\ Working("rotating")
  /\ file' = [file EXCEPT !["merged"] = FreshFile("merged")]
  /\ LET d == Truncated(disk, "merged")
     IN /\ disk' = TornGroup(d, PathOf(file'["merged"]))
        /\ Lose("overwritten", Vanished(disk, d))
  /\ fseq' = fseq + 1
  /\ WorkAt("ready")
  /\ UNCHANGED <<mode, phase, clock, batchSeq, buf, lastTs, flush, faults, given>>

\* When the new file cannot be created mergeFile_ stays null for good:
\* checkMergeRotation() returns at once and every later frame is skipped.
MergeOpenFails ==
  /\ Working("rotating")
  /\ Fail
  /\ fseq' = fseq + 1
  /\ Lose("failed", FrameValues(work, work.frames))
  /\ UNCHANGED <<mode, phase, clock, batchSeq, file, disk, buf, lastTs, flush, given>>

\* A group with a timestamp, unless it is already there, and values appended.
Appended(g, ts, cols, values) ==
  [ts |-> g.ts \o ts, torn |-> g.torn,
   col |-> [c \in Columns |-> IF c \in cols THEN Append(g.col[c], values[c]) ELSE g.col[c]]]
AppendTo(f, s, ts, cols, values) ==
  WithGroup(disk, PathOf(f), s, Appended(disk[PathOf(f)][s], ts, cols, values))
AppendTorn(f, s, ts, cols, values) ==
  WithGroup(disk, PathOf(f), s, Tear(Appended(disk[PathOf(f)][s], ts, cols, values)))

\* A file to which n values were written.
Grown(f, n) == [open |-> TRUE, key |-> f.key, stamp |-> f.stamp, opened |-> f.opened,
                bytes |-> f.bytes + n]

\* Defect: every frame of a split batch brings the timestamp.
RepeatedTs == <<work.frames[1].row>>

\* The timestamp goes with the first frame of a batch, whose row is its number.
BatchTs == IF lastTs = work.seq THEN <<>> ELSE <<work.frames[1].row>>
BatchValues == [c \in Columns |-> <<work.seq, work.frames[1].row>>]

\* A later frame of a batch whose timestamp is not the one that was written:
\* the group gets its values and no timestamp for them.
Untimed == lastTs = work.seq /\ work.frames[1].row # work.seq

\* appendFrame() and appendFrameMerge(), with recordWrite(): the timestamp once
\* for a batch, then the columns.
AppendFrame ==
  /\ Working("ready") /\ work.source = "pv"
  /\ LET cols == work.frames[1].cols
     IN /\ disk' = IF Untimed
                   THEN AppendTorn(Current, "pv", BatchTs, cols, BatchValues)
                   ELSE AppendTo(Current, "pv", BatchTs, cols, BatchValues)
        /\ file' = [file EXCEPT ![KeyOf("pv")] = Grown(@, Cardinality(cols))]
  /\ lastTs' = work.seq
  /\ NextFrame
  /\ UNCHANGED <<mode, phase, clock, batchSeq, buf, flush, fseq, faults, given, lost>>

\* An HDF5 error after the timestamp and some of the columns; the merge file
\* counts bytes column by column.
AppendFails ==
  /\ Working("ready") /\ work.source = "pv"
  /\ Fail
  /\ \E cols \in (SUBSET work.frames[1].cols) \ {work.frames[1].cols} :
       /\ disk' = AppendTorn(Current, "pv", BatchTs, cols, BatchValues)
       /\ file' = [file EXCEPT ![KeyOf("pv")] =
                     Grown(@, IF mode = "merge" THEN Cardinality(cols) ELSE 0)]
       /\ Lose("failed", FrameValues(work, work.frames)
                           \ FrameValues(work, <<Frame(work.frames[1].row, cols)>>))
  /\ lastTs' = work.seq
  /\ UNCHANGED <<mode, phase, clock, batchSeq, buf, flush, fseq, given>>

\* appendFrameMerge() and flushTabularBufferMerge() without a file.
SkipWithoutFile ==
  /\ Working("noFile")
  /\ IF work.source = "pv"
     THEN Lose("skipped", FrameValues(work, <<work.frames[1]>>)) /\ NextFrame
     ELSE UNCHANGED lost /\ WorkAt("flushed")
  /\ UNCHANGED <<mode, phase, clock, batchSeq, file, disk, buf, lastTs, flush, fseq, faults, given>>

\* Defect: the row that was written stays in the buffer.
KeptRow == [buf EXCEPT !.fixed = TRUE]

\* The buffer after a flush keeps only its schema.
Flushed == [fixed |-> TRUE, known |-> buf.known, ts |-> <<>>, rows |-> 0, round |-> 0,
            col |-> [c \in Columns |-> <<>>]]

BufferValues == [c \in Columns |-> IF buf.col[c] = <<>> THEN Fill ELSE Head(buf.col[c])]

\* flushTabularBuffer(): lock the schema, append one row, a column that brought
\* no value with the fill value; a second value of the round does not fit.
FlushTabular ==
  /\ Working("ready") /\ work.source = "table"
  /\ WorkAt("flushed")
  /\ IF buf.known = {}
     THEN /\ buf' = [fixed |-> TRUE, known |-> {}, ts |-> buf.ts, rows |-> 0, round |-> buf.round,
                     col |-> buf.col]
          /\ UNCHANGED <<disk, file, lost>>
     ELSE /\ disk' = AppendTo(Current, "table", <<Head(buf.ts)>>, buf.known, BufferValues)
          /\ Lose("repeated", UNION {{<<"table", c, buf.col[c][i]>> : i \in 2 .. Len(buf.col[c])} :
                                        c \in buf.known})
          /\ file' = [file EXCEPT ![KeyOf("table")] =
                        Grown(@, IF mode = "merge" THEN Cardinality(buf.known) + 2 ELSE 0)]
          /\ buf' = Flushed
  /\ UNCHANGED <<mode, phase, clock, batchSeq, lastTs, flush, fseq, faults, given>>

\* The timestamp and some columns are appended, a column fails: the buffer keeps
\* its row.
FlushTabularFails ==
  /\ Working("ready") /\ work.source = "table"
  /\ Fail
  /\ \E cols \in (SUBSET buf.known) \ {buf.known} :
       disk' = AppendTorn(Current, "table", <<Head(buf.ts)>>, cols, BufferValues)
  /\ buf' = [buf EXCEPT !.fixed = TRUE]
  /\ Lose("failed", FrameValues(work, work.frames))
  /\ UNCHANGED <<mode, phase, clock, batchSeq, file, lastTs, flush, fseq, given>>

\* The columns of a frame the buffer takes: all of them, or the ones its schema
\* knows.
Accepted(cols) == IF buf.fixed THEN cols \cap buf.known ELSE cols
Accumulated(f, cols) ==
  [fixed |-> buf.fixed, known |-> buf.known \cup cols, rows |-> 1,
   ts    |-> IF buf.rows = 0 THEN Append(buf.ts, f.row) ELSE buf.ts,
   round |-> IF buf.rows = 0 THEN f.row ELSE buf.round,
   col   |-> [c \in Columns |-> IF c \in cols THEN Append(buf.col[c], <<work.seq, f.row>>)
                                                ELSE buf.col[c]]]

AtAccumulate ==
  /\ work # NoWork /\ work.source = "table"
  /\ work.at = "flushed" \/ (work.at = "frame" /\ ~MustFlush)

Accumulate ==
  /\ AtAccumulate /\ work.frames # <<>>
  /\ LET f == work.frames[1]
     IN /\ buf' = Accumulated(f, Accepted(f.cols))
        /\ Lose("unknown", FrameValues(work, <<Frame(f.row, f.cols \ Accepted(f.cols))>>))
  /\ NextFrame
  /\ UNCHANGED <<mode, phase, clock, batchSeq, file, disk, lastTs, flush, fseq, faults, given>>

EndOfGroup ==
  /\ AtAccumulate /\ work.end
  /\ work' = NoWork
  /\ UNCHANGED <<mode, phase, clock, batchSeq, file, disk, buf, lastTs, flush, fseq,
                 faults, given, lost>>

\* A column changes its type: std::get throws after some columns were taken.
AccumulateFails ==
  /\ AtAccumulate /\ work.frames # <<>>
  /\ Fail
  /\ LET f == work.frames[1]
     IN \E c \in Accepted(f.cols) \cap buf.known : \E cols \in SUBSET (Accepted(f.cols) \ {c}) :
          /\ buf' = Accumulated(f, cols)
          /\ Lose("failed", FrameValues(work, <<Frame(f.row, f.cols \ cols)>>))
  /\ UNCHANGED <<mode, phase, clock, batchSeq, file, disk, lastTs, flush, fseq, given>>

HDF5Next ==
  /\ flush # "nullDereference"
  /\ \/ Start \/ DoStop \/ OnHDF5Stop \/ \E k \in Keys : CloseOne(k)
     \/ FlushTest \/ FlushUse \/ Tick
     \/ Take \/ BatchDone \/ AcquireFile \/ PoolOpen \/ PoolRotate \/ PoolOpenFails
     \/ MergeClose \/ MergeOpen \/ MergeOpenFails
     \/ AppendFrame \/ AppendFails \/ SkipWithoutFile
     \/ FlushTabular \/ FlushTabularFails \/ Accumulate \/ AccumulateFails \/ EndOfGroup

HDF5Spec == HDF5Init /\ [][HDF5Next]_hdf5Vars

-----------------------------------------------------------------------------
\* The cells that hold a value, and whether the buffer or the batch in hand does.
PlacesIn(p, v) ==
  LET col == disk[p][v[1]].col[v[2]] IN {<<p, i>> : i \in {j \in DOMAIN col : col[j] = v[3]}}
Places(v) == UNION {PlacesIn(p, v) : p \in DOMAIN disk}
InBuffer(v) == v[1] = "table" /\ \E i \in DOMAIN buf.col[v[2]] : buf.col[v[2]][i] = v[3]
InHand(v) == work # NoWork /\ v \in FrameValues(work, work.frames)
Count(b) == IF b THEN 1 ELSE 0

\* Every value the worker took is in exactly one place: the batch in hand, the
\* tabular buffer, one cell of one file, or one named loss; only a tabular value
\* may be on disk besides, in a group that a failed flush tore.  Without a failing
\* file operation the merge writer loses nothing of an ordinary source, across all
\* its rotations, and files are replaced only by the per-source pool's one-second
\* names.
RowsAccounted ==
  /\ \A v \in given :
       LET sum == Cardinality(Places(v)) + Count(InBuffer(v)) + Count(InHand(v))
                  + Cardinality({r \in Reasons : v \in lost[r]})
       IN \/ sum = 1
          \/ sum > 1 /\ v[1] = "table" /\ \E pi \in Places(v) : disk[pi[1]]["table"].torn
  /\ mode = "merge" => lost["overwritten"] = {}
  /\ faults = 0 => lost["failed"] = {} /\ lost["skipped"] = {}

RowOfTs(g, s, c) ==
  /\ Len(g.col[c]) = Len(g.ts)
  /\ \A i \in DOMAIN g.ts : (g.col[c][i] = Fill /\ s = "table") \/ g.col[c][i][2] = g.ts[i]

\* In a file, row i of every column belongs to timestamp i: across rotations, in
\* rounds with missing columns, and while the schema is being locked.  Excepted
\* are groups torn by an HDF5 error, by a rotation inside a batch or by a batch
\* with a timestamp for each frame (LayoutKept says what the docs promise).
RowsAligned ==
  \A p \in DOMAIN disk, s \in SourceNames :
    ~disk[p][s].torn /\ (work = NoWork \/ work.source # s) =>
      \A c \in IF s = "pv" THEN Columns ELSE buf.known : RowOfTs(disk[p][s], s, c)

\* The flush thread never uses a pool or file that doStop() has closed; the null
\* mergeFile_ it can meet, and in this code does meet, is that of a rotation under
\* way or failed.  When stop() is done every file has its final name unless a
\* rename failed.
StopSeals ==
  /\ flush = "nullDereference" => mode = "merge" /\ (Working("rotating") \/ faults > 0)
  /\ phase = "stopped" => flush = "done"
  /\ phase = "stopped" /\ faults = 0 => \A p \in DOMAIN disk : p[1] = "final"

\* The files are sound: rows aligned at every moment (appendFrame,
\* flushTabularBuffer), and sealed by the end of doStop().
FilesSound == RowsAligned /\ StopSeals

-----------------------------------------------------------------------------
(* What the documentation promises of files when nothing fails.             *)

\* Every dataset of an ordinary source has a row for each timestamp.
LayoutKept ==
  faults = 0 /\ work = NoWork =>
    \A p \in DOMAIN disk, c \in Columns : RowOfTs(disk[p]["pv"], "pv", c)

\* A rotation loses no data and leaves the old file untouched.
OldFilesKept == faults = 0 => lost["overwritten"] = {}

\* At least one of the two promises holds.
LayoutOrOldFilesKept == LayoutKept \/ OldFilesKept
=============================================================================
