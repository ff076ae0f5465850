------------------------------ MODULE QueryScan ------------------------------
(***************************************************************************)
(* Scans of mldp.time_series: the shards of one scan pull pages over       *)
(* pooled connections, each in a task of its own, and the caller of next() *)
(* takes their batches in shard order.  scan.kind tells                    *)
(*   "series"  ParallelSeriesRecordBatchStream: one time range,            *)
(*   "window"  WindowBackendScanRecordBatchStream: windows cut into slices,*)
(*   "wide"    fetchTimeSeriesWindows(): the same, one shard at a time.    *)
(*                                                                         *)
(* Time is counted in ticks, the nanoseconds of the code: Second ticks are *)
(* the whole second that bounds of backend queries are rounded down to.    *)
(* Every tick up to Horizon has a sample, in buckets of scan.size ticks.   *)
(***************************************************************************)
EXTENDS Integers, Sequences, FiniteSets, SequencesExt

CONSTANTS
  Scans,      \* scans: [kind, raw, slice, size, conns, parallel]
  Second,     \* ticks in a second
  Horizon,    \* bound: the last sample
  NumShards,  \* shards a scan's PVs are divided into
  MaxReadFaults \* bound: failing backend calls

\* Windows of a scan end no earlier than they begin, and there is one.  A series
\* has one time range, and reads it whole.
ASSUME ScanAssumption ==
  /\ Second \in Nat \ {0} /\ Horizon \in Nat /\ NumShards \in Nat \ {0}
  /\ \A s \in Scans :
       /\ s.kind \in {"series", "window", "wide"}
       /\ s.raw \in SUBSET (Nat \X Nat) /\ IsFiniteSet(s.raw) /\ s.raw # {}
       /\ \A w \in s.raw : w[1] <= w[2]
       /\ s.kind = "series" => \A v, w \in s.raw : v = w /\ w[2] - w[1] <= s.slice
       /\ s.slice \in Nat \ {0} /\ s.size \in Nat \ {0} /\ s.conns \in Nat \ {0} /\ s.parallel \in Nat

VARIABLES
  scan,       \* the scan, fixed; with its normalized windows
  slice,      \* the slice whose shards are being read
  nextBegin,  \* slice_begin_ns_: where the next slice begins
  groups,     \* groups_: the shards of the slice
  current,    \* group_index_, current_
  unstarted,  \* next_group_to_start_: the first shard without a task
  caller,     \* control point of the caller of next()
  cancelled,  \* context_.cancellation
  readFaults, \* failures so far
  result      \* history: rows handed to the caller

scanVars == <<scan, slice, nextBegin, groups, current, unstarted, caller, cancelled, readFaults, result>>

Shards == 1 .. NumShards
Least(a, b) == IF a < b THEN a ELSE b
Floor(t) == t \div Second

\* extractNormalizedWindows(): sorted, overlapping and adjacent ones joined.
Widened(v, w) == <<v[1], IF v[2] < w[2] THEN w[2] ELSE v[2]>>
Coalesce(ws, w) ==
  IF ws = <<>> \/ w[1] > Last(ws)[2] + 1
  THEN Append(ws, w)
  ELSE [ws EXCEPT ![Len(ws)] = Widened(@, w)]
Before(v, w) == v[1] < w[1] \/ (v[1] = w[1] /\ v[2] < w[2])
InOrder(raw) == CHOOSE s \in SetToSeqs(raw) : \A i, j \in DOMAIN s : i < j => Before(s[i], s[j])
NormalizedWindows(raw) == FoldLeft(Coalesce, <<>>, InOrder(raw))

\* The pages of a shard: the backend answers with every bucket that overlaps
\* the inclusive range of whole seconds.
FirstBucket(begin) == (Floor(begin) * Second) \div scan.size
LastBucket(end) == Least(Floor(end) * Second, Horizon) \div scan.size
Bucket(k) == [i \in 1 .. Least(scan.size, Horizon + 1 - k * scan.size) |-> k * scan.size + i - 1]
Buckets(first, last) == [i \in 1 .. last - first + 1 |-> Bucket(first + i - 1)]
Pages(begin, end) == Buckets(FirstBucket(begin), LastBucket(end))

\* Defect: as many shards in flight as there are, whatever the pool holds.
UncappedLimit == NumShards

\* limit_, parallel_shard_limit_; the serial path has one cursor.
Limit ==
  IF scan.kind = "wide" THEN 1
  ELSE Least(NumShards, IF scan.parallel = 0 THEN scan.conns ELSE Least(scan.conns, scan.parallel))

Opening(s) == [at |-> "opening", left |-> Pages(s.begin, s.end), page |-> <<>>]
Waiting == [at |-> "waiting", left |-> <<>>, page |-> <<>>]
Gone == [at |-> "gone", left |-> <<>>, page |-> <<>>]

\* prepareNextSlice(): the slice that begins at b in window w.
SliceAt(w, b) ==
  LET windowEnd == scan.windows[w][2]
      end == IF windowEnd - b < scan.slice THEN windowEnd ELSE b + scan.slice
  IN [window |-> w, begin |-> b, end |-> end, final |-> end = windowEnd]
AfterSlice(s) == IF s.final THEN scan.windows[s.window][2] + 1 ELSE s.end
HasSlice(w, b) == b <= scan.windows[w][2] \/ w < Len(scan.windows)
FollowingSlice(w, b) ==
  IF b <= scan.windows[w][2] THEN SliceAt(w, b) ELSE SliceAt(w + 1, scan.windows[w + 1][1])
Prepared(s) == [i \in Shards |-> IF i <= Limit THEN Opening(s) ELSE Waiting]

ScanInit ==
  /\ \E s \in Scans :
       scan = [kind |-> s.kind, raw |-> s.raw, windows |-> NormalizedWindows(s.raw),
               slice |-> s.slice, size |-> s.size, conns |-> s.conns, parallel |-> s.parallel]
  /\ slice = SliceAt(1, scan.windows[1][1])
  /\ nextBegin = AfterSlice(slice)
  /\ groups = Prepared(slice)
  /\ current = 1 /\ unstarted = Limit + 1
  /\ caller = "idle" /\ cancelled = FALSE /\ readFaults = 0 /\ result = <<>>

\* Connections: a shard holds one from executeStream() until its stream, or the
\* result that carries it, is gone.
InUse == Cardinality({s \in Shards : groups[s].at \in {"reading", "ready", "end", "held"}})
SetShard(s, point) == groups' = [groups EXCEPT ![s].at = point]

-----------------------------------------------------------------------------
(* The tasks: MLDPGrpcQueryPool::acquire(), then a page for each pull.      *)

\* cancelAndDrain() cancels the shards' own token, the window scan has only
\* that of the query.
TaskCancelled == cancelled \/ (scan.kind = "series" /\ caller \in {"draining", "gone"})

Acquire(s) ==
  /\ groups[s].at = "opening" /\ InUse < scan.conns
  /\ SetShard(s, "reading")
  /\ UNCHANGED <<scan, slice, nextBegin, current, unstarted, caller, cancelled, readFaults, result>>

Pull(s) ==
  /\ groups[s].at = "reading"
  /\ \/ /\ groups[s].left # <<>> /\ ~TaskCancelled
        /\ groups' = [groups EXCEPT ![s] = [at |-> "ready", left |-> Tail(@.left), page |-> Head(@.left)]]
     \/ groups[s].left = <<>> /\ SetShard(s, "end")
  /\ UNCHANGED <<scan, slice, nextBegin, current, unstarted, caller, cancelled, readFaults, result>>

\* A failed or cancelled call throws out of the task: its stream, and with it
\* the connection, is released and the future keeps the exception.
PullFails(s) ==
  /\ groups[s].at = "reading"
  /\ IF TaskCancelled THEN UNCHANGED readFaults
     ELSE readFaults < MaxReadFaults /\ readFaults' = readFaults + 1
  /\ SetShard(s, "error")
  /\ UNCHANGED <<scan, slice, nextBegin, current, unstarted, caller, cancelled, result>>

-----------------------------------------------------------------------------
(* The caller of next().                                                    *)

AtEnd == current > NumShards

\* The head of the loop in next(), entered by a call or by continue.
Exhausted ==
  /\ caller \in {"idle", "loop"} /\ AtEnd
  /\ scan.kind = "series" => ~cancelled
  /\ caller' = "done"
  /\ UNCHANGED <<scan, slice, nextBegin, groups, current, unstarted, cancelled, readFaults, result>>

ThrowIfCancelled ==
  /\ caller \in {"idle", "loop"} /\ cancelled
  /\ AtEnd => scan.kind = "series"
  /\ caller' = "draining"
  /\ UNCHANGED <<scan, slice, nextBegin, groups, current, unstarted, cancelled, readFaults, result>>

ScheduleNext ==
  /\ caller \in {"idle", "loop"} /\ ~AtEnd /\ ~cancelled
  /\ caller' = "get"
  /\ IF groups[current].at = "held" THEN SetShard(current, "reading") ELSE UNCHANGED groups
  /\ UNCHANGED <<scan, slice, nextBegin, current, unstarted, cancelled, readFaults, result>>

\* Defect: every slice takes the sample at its end.
ClosedSlice(t) == scan.kind = "series" \/ (t >= slice.begin /\ t <= slice.end)

\* The local filter that makes every slice but the last half-open; the serial
\* path bounds only the slices before the last from above.
InSlice(t) ==
  \/ scan.kind = "series"
  \/ /\ t >= slice.begin
     /\ IF slice.final THEN scan.kind = "wide" \/ t <= slice.end ELSE t < slice.end

Row(t) == [window |-> slice.window, begin |-> slice.begin, shard |-> current, t |-> t]
Filtered(rows, t) == IF InSlice(t) THEN Append(rows, Row(t)) ELSE rows

GetBatch ==
  /\ caller = "get" /\ groups[current].at = "ready"
  /\ result' = FoldLeft(Filtered, result, groups[current].page)
  /\ groups' = [groups EXCEPT ![current] = [at |-> "held", left |-> @.left, page |-> <<>>]]
  /\ caller' = "idle"
  /\ UNCHANGED <<scan, slice, nextBegin, current, unstarted, cancelled, readFaults>>

\* The shard is exhausted: its connection is released before the next shard is
\* started; after the last shard comes the next slice.
GetEnd ==
  /\ caller = "get" /\ groups[current].at = "end"
  /\ caller' = "loop"
  /\ IF current = NumShards /\ scan.kind # "series" /\ HasSlice(slice.window, nextBegin)
     THEN /\ slice' = FollowingSlice(slice.window, nextBegin)
          /\ nextBegin' = AfterSlice(slice')
          /\ groups' = Prepared(slice')
          /\ current' = 1 /\ unstarted' = Limit + 1
     ELSE /\ current' = current + 1
          /\ groups' = [i \in Shards |-> IF i = current THEN Gone
                                         ELSE IF i = unstarted THEN Opening(slice) ELSE groups[i]]
          /\ unstarted' = Least(unstarted + 1, NumShards + 1)
          /\ UNCHANGED <<slice, nextBegin>>
  /\ UNCHANGED <<scan, cancelled, readFaults, result>>

GetError ==
  /\ caller = "get" /\ groups[current].at = "error"
  /\ caller' = "draining"
  /\ UNCHANGED <<scan, slice, nextBegin, groups, current, unstarted, cancelled, readFaults, result>>

\* The caller has rows enough, or is done, and destroys the stream.
Close ==
  /\ caller \in {"idle", "done"}
  /\ caller' = "draining"
  /\ UNCHANGED <<scan, slice, nextBegin, groups, current, unstarted, cancelled, readFaults, result>>

\* cancelAndDrain() and the futures' destructors: shard after shard, waiting
\* for the task of each.
Undrained == {s \in Shards : groups[s].at \notin {"waiting", "gone"}}
Drain(s) ==
  /\ caller = "draining" /\ s \in Undrained /\ \A r \in Undrained : s <= r
  /\ groups[s].at \in {"ready", "end", "held", "error"}
  /\ groups' = [groups EXCEPT ![s] = Gone]
  /\ UNCHANGED <<scan, slice, nextBegin, current, unstarted, caller, cancelled, readFaults, result>>

Drained ==
  /\ caller = "draining" /\ Undrained = {}
  /\ caller' = "gone"
  /\ UNCHANGED <<scan, slice, nextBegin, groups, current, unstarted, cancelled, readFaults, result>>

RequestCancel ==
  /\ ~cancelled /\ caller \notin {"done", "gone"}
  /\ cancelled' = TRUE
  /\ UNCHANGED <<scan, slice, nextBegin, groups, current, unstarted, caller, readFaults, result>>

ScanNext ==
  \/ \E s \in Shards : Acquire(s) \/ Pull(s) \/ PullFails(s) \/ Drain(s)
  \/ Exhausted \/ ThrowIfCancelled \/ ScheduleNext \/ GetBatch \/ GetEnd \/ GetError
  \/ Close \/ Drained \/ RequestCancel

ScanSpec == ScanInit /\ [][ScanNext]_scanVars

-----------------------------------------------------------------------------
Requested == {t \in 0 .. Horizon : \E w \in scan.raw : w[1] <= t /\ t <= w[2]}
Handed(s) == {result[i].t : i \in {j \in DOMAIN result : result[j].shard = s}}
Precedes(p, r) ==
  \/ p.window < r.window
  \/ p.window = r.window /\ p.begin < r.begin
  \/ p.window = r.window /\ p.begin = r.begin /\ p.shard < r.shard
  \/ p.window = r.window /\ p.begin = r.begin /\ p.shard = r.shard /\ p.t < r.t

\* The ticks of a slice after the last bucket it asks for, that of the whole
\* second in which it ends.
Unasked == {t \in 0 .. Horizon : \E i \in DOMAIN scan.windows, k \in 1 .. Horizon + 1 :
              LET w == scan.windows[i]
                  e == Least(w[2], w[1] + k * scan.slice)
              IN t <= e /\ (Floor(e) * Second) \div scan.size < t \div scan.size}
\* Buckets that reach beyond the end of a window come whole from the serial path.
Overhang == {t \in 0 .. Horizon : \E i \in DOMAIN scan.windows :
              LET w == scan.windows[i] IN t > w[2] /\ t \div scan.size <= w[2] \div scan.size}

\* Rows come in the documented order (window, slice, shard, time) whatever the
\* order in which the tasks answer.  A window scan hands out no sample twice and
\* none that is not requested; the serial path adds those of buckets that reach
\* beyond a window.  A scan that reaches its end has handed out every requested
\* sample of every shard: all of them when the windows have whole seconds, and
\* otherwise all but those in the buckets after the last whole second of a slice.
ScanExact ==
  /\ \A i, j \in DOMAIN result : i < j => Precedes(result[i], result[j])
  /\ scan.kind = "window" =>
       \A i, j \in DOMAIN result :
         result[i].shard = result[j].shard /\ result[i].t = result[j].t => i = j
  /\ \A s \in Shards :
       /\ scan.kind = "window" => Handed(s) \subseteq Requested
       /\ scan.kind = "wide" => Handed(s) \subseteq Requested \cup Overhang
       /\ caller = "done" => Requested \ Handed(s) \subseteq Unasked

\* next() and the destructor never wait for a shard that cannot get its
\* connection because shards behind it hold them all with pages nobody takes:
\* the shards in flight are never more than the pool has connections.
ScanNeverStarves ==
  LET waitedFor == IF caller = "get" THEN {current}
                   ELSE IF caller = "draining" THEN {s \in Undrained : \A r \in Undrained : s <= r}
                   ELSE {}
  IN /\ \A s \in waitedFor : groups[s].at = "opening" => InUse < scan.conns
     /\ caller = "gone" => InUse = 0
=============================================================================
