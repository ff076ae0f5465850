-------------------------- MODULE ChannelProcessor --------------------------
(***************************************************************************)
(* ChannelProcessor and its InputBuffer: reader threads push batches, a    *)
(* pool of one thread ingests them into per-source slots, decides whether  *)
(* to fire the algorithm, and pushes its outputs back to the bus.  stop()  *)
(* waits on drain_cv_ until pending_tasks_ is zero; the task that gets it  *)
(* to zero notifies without holding drain_mutex_.                          *)
(*                                                                         *)
(* Samples of a source are numbered from 1 in the order they are pushed,   *)
(* and stand for both the timestamp and the value.                         *)
(***************************************************************************)
EXTENDS Integers, Sequences, FiniteSets, SequencesExt

CONSTANTS
  Sources,       \* source names routed to the processor
  ShapesOf,      \* column layouts of each source's frames: [columns, type]
  Configs,       \* configurations: [required, trigger, latest, maxDepth]
  MaxFrame,      \* bound: samples in a frame
  MaxFrames,     \* bound: frames in a batch
  MaxQueued,     \* bound: batches waiting in the pool
  MaxSamples,    \* bound: samples a source pushes in one behaviour
  MaxOutputs     \* bound: outputs of one compute()

Triggers == {"any-update", "all-updated", "interval"}
Sample == 1 .. MaxSamples
Shapes == UNION {ShapesOf[s] : s \in Sources}
NoShape == [columns |-> 0, type |-> "none"]

ASSUME ProcessorAssumption ==
  /\ IsFiniteSet(Sources)
  /\ \A h \in Shapes : h.columns \in Nat \ {0}
  /\ \A c \in Configs : /\ c.required \in Seq(Sources)
                        /\ c.trigger \in Triggers
                        /\ c.latest \in BOOLEAN
                        /\ c.maxDepth \in Nat
  /\ MaxFrame \in Nat \ {0} /\ MaxFrames \in Nat \ {0}
  /\ MaxQueued \in Nat /\ MaxSamples \in Nat /\ MaxOutputs \in Nat

VARIABLES
  config,    \* config_: fixed when the processor is created
  sent,      \* samples each source has pushed
  tasks,     \* batches in the queue of thread_pool_
  pending,   \* pending_tasks_
  tpc,       \* control point of the pool thread
  outputs,   \* outputs of compute() still to be pushed
  slots,     \* buffer_.slots_
  fresh,     \* buffer_.fresh_
  seen,      \* buffer_.seen_sources_
  running,   \* running_
  spc,       \* control point of stop() and the destructor
  taken,     \* history: last sample of each source the buffer ingested
  fired,     \* history: taken, when the algorithm last fired
  before,    \* history: taken, when it fired the time before
  shapes     \* history: layouts each source has used

bufferVars == <<slots, fresh, seen>>
historyVars == <<taken, fired, before, shapes>>
vars == <<config, sent, tasks, pending, tpc, outputs, bufferVars, running, spc, historyVars>>

EmptySlot == [ts |-> <<>>, vals |-> <<>>, shape |-> NoShape]

TypeOK ==
  /\ config \in Configs
  /\ sent \in [Sources -> 0 .. MaxSamples]
  /\ \A i \in 1 .. Len(tasks) : tasks[i].source \in Sources
  /\ pending \in Nat
  /\ tpc \in {"idle", "compute", "push", "finish", "notify"}
  /\ outputs \in 0 .. MaxOutputs
  /\ DOMAIN slots = Sources
  /\ \A s \in Sources : /\ slots[s].ts \in Seq(Sample)
                        /\ slots[s].vals \in Seq(Sample)
                        /\ slots[s].shape \in Shapes \cup {NoShape}
  /\ fresh \subseteq Sources
  /\ seen \subseteq Sources
  /\ running \in BOOLEAN
  /\ spc \in {"none", "test", "blocking", "asleep", "clear", "stopped", "destroyed"}
  /\ taken \in [Sources -> 0 .. MaxSamples]
  /\ fired \in [Sources -> 0 .. MaxSamples]
  /\ before \in [Sources -> 0 .. MaxSamples]
  /\ shapes \in [Sources -> SUBSET Shapes]

\* A processor just started.
Init ==
  /\ config \in Configs
  /\ sent = [s \in Sources |-> 0]
  /\ tasks = <<>>
  /\ pending = 0
  /\ tpc = "idle"
  /\ outputs = 0
  /\ slots = [s \in Sources |-> EmptySlot]
  /\ fresh = {}
  /\ seen = {}
  /\ running = TRUE
  /\ spc = "none"
  /\ taken = [s \in Sources |-> 0]
  /\ fired = [s \in Sources |-> 0]
  /\ before = [s \in Sources |-> 0]
  /\ shapes = [s \in Sources |-> {}]

-----------------------------------------------------------------------------
(* InputBuffer *)

\* Defect: one sample too few is dropped.
TrimTooFew(slot) ==
  LET drop == Len(slot.ts) - config.maxDepth - 1
  IN  IF config.maxDepth = 0 \/ drop <= 0 THEN slot
      ELSE [slot EXCEPT !.ts = SubSeq(@, drop + 1, Len(@)),
                        !.vals = SubSeq(@, drop + 1, Len(@))]

\* trimOldestSamples(): a slot with too few values is emptied altogether.
Trim(slot) ==
  LET drop == Len(slot.ts) - config.maxDepth
  IN  IF config.maxDepth = 0 \/ drop <= 0 THEN slot
      ELSE IF Len(slot.vals) <= drop THEN [ts |-> <<>>, vals |-> <<>>, shape |-> slot.shape]
      ELSE [ts |-> SubSeq(slot.ts, drop + 1, Len(slot.ts)),
            vals |-> SubSeq(slot.vals, drop + 1, Len(slot.vals)),
            shape |-> slot.shape]

\* Append a frame: its timestamps always, its values only to columns of the same type;
\* columns of another type are replaced, another number of columns is left alone.
AddFrame(slot, frame) ==
  LET fits == slot.shape = NoShape \/ slot.shape.columns = frame.shape.columns
      vals == IF ~fits THEN slot.vals
              ELSE IF slot.shape = frame.shape THEN slot.vals \o frame.samples
              ELSE frame.samples
  IN  Trim([ts |-> slot.ts \o frame.samples, vals |-> vals,
            shape |-> IF fits THEN frame.shape ELSE slot.shape])

\* ingest(): latest-value keeps the last frame, the other policies accumulate.
Ingested(slot, frames) ==
  IF config.latest
  THEN LET frame == Last(frames)
       IN  Trim([ts |-> frame.samples, vals |-> frame.samples, shape |-> frame.shape])
  ELSE FoldLeft(AddFrame, slot, frames)

\* The sources all-updated waits for: the configured ones, or all seen so far.
Needed == IF config.required # <<>> THEN ToSet(config.required) ELSE seen

\* trySnapshot() has a snapshot to give, and the trigger is not the timer: the number of
\* fresh sources is compared with the length of the configured list.
Fires(freshNow, seenNow) ==
  \/ config.trigger = "any-update"
  \/ /\ config.trigger = "all-updated"
     /\ Cardinality(freshNow) = IF config.required # <<>> THEN Len(config.required)
                                 ELSE Cardinality(seenNow)

-----------------------------------------------------------------------------
(* push() and the tasks of the pool thread *)

\* The samples at which the n frames of a source's next batch end, after the last one sent.
Cuts(s, n) ==
  {cut \in [0 .. n -> sent[s] .. MaxSamples] :
     /\ cut[0] = sent[s]
     /\ \A i, j \in 0 .. n : i < j => cut[i] < cut[j]
     /\ \A i \in 1 .. n : cut[i] - cut[i - 1] <= MaxFrame}

\* ++pending_tasks_, then detach_task(); readers are gone before stop() is called.
Push(s) ==
  /\ spc = "none"
  /\ Len(tasks) < MaxQueued
  /\ \E n \in 1 .. MaxFrames : \E cut \in Cuts(s, n), shape \in [1 .. n -> ShapesOf[s]] :
       LET Frame(i) == [samples |-> [k \in 1 .. cut[i] - cut[i - 1] |-> cut[i - 1] + k],
                        shape |-> shape[i]]
       IN  /\ tasks' = Append(tasks, [source |-> s, frames |-> [i \in 1 .. n |-> Frame(i)]])
           /\ sent' = [sent EXCEPT ![s] = cut[n]]
           /\ shapes' = [shapes EXCEPT ![s] = @ \cup {shape[i] : i \in 1 .. n}]
  /\ pending' = pending + 1
  /\ UNCHANGED <<config, tpc, outputs, bufferVars, running, spc, taken, fired, before>>

\* A batch of a source that is not configured leaves the buffer alone.
Buffered(s) == config.required = <<>> \/ s \in ToSet(config.required)

\* Defect: a source stays fresh after the algorithm has fired.
TaskBeginKeepsFresh ==
  /\ tpc = "idle" /\ tasks # <<>> /\ running
  /\ LET s == Head(tasks).source
         freshNow == IF Buffered(s) THEN fresh \cup {s} ELSE fresh
         seenNow == IF config.required = <<>> THEN seen \cup {s} ELSE seen
     IN  /\ slots' = IF Buffered(s)
                     THEN [slots EXCEPT ![s] = Ingested(@, Head(tasks).frames)] ELSE slots
         /\ taken' = IF Buffered(s)
                     THEN [taken EXCEPT ![s] = Last(Last(Head(tasks).frames).samples)] ELSE taken
         /\ seen' = seenNow
         /\ fresh' = freshNow
         /\ IF Fires(freshNow, seenNow)
            THEN tpc' = "compute" /\ fired' = taken' /\ before' = fired
            ELSE tpc' = "finish" /\ UNCHANGED <<fired, before>>
  /\ tasks' = Tail(tasks)
  /\ UNCHANGED <<config, sent, pending, outputs, running, spc, shapes>>

\* Defect: a source is marked fresh only by its first batch.
TaskBeginFirstOnly ==
  /\ tpc = "idle" /\ tasks # <<>> /\ running
  /\ LET s == Head(tasks).source
         freshNow == IF Buffered(s) /\ slots[s] = EmptySlot THEN fresh \cup {s} ELSE fresh
         seenNow == IF config.required = <<>> THEN seen \cup {s} ELSE seen
     IN  /\ slots' = IF Buffered(s)
                     THEN [slots EXCEPT ![s] = Ingested(@, Head(tasks).frames)] ELSE slots
         /\ taken' = IF Buffered(s)
                     THEN [taken EXCEPT ![s] = Last(Last(Head(tasks).frames).samples)] ELSE taken
         /\ seen' = seenNow
         /\ IF Fires(freshNow, seenNow)
            THEN tpc' = "compute" /\ fresh' = {} /\ fired' = taken' /\ before' = fired
            ELSE tpc' = "finish" /\ fresh' = freshNow /\ UNCHANGED <<fired, before>>
  /\ tasks' = Tail(tasks)
  /\ UNCHANGED <<config, sent, pending, outputs, running, spc, shapes>>

\* processTask(): ingest the batch; if the trigger is met reset the fresh flags and fire.
TaskBegin ==
  /\ tpc = "idle" /\ tasks # <<>> /\ running
  /\ LET s == Head(tasks).source
         freshNow == IF Buffered(s) THEN fresh \cup {s} ELSE fresh
         seenNow == IF config.required = <<>> THEN seen \cup {s} ELSE seen
     IN  /\ slots' = IF Buffered(s)
                     THEN [slots EXCEPT ![s] = Ingested(@, Head(tasks).frames)] ELSE slots
         /\ taken' = IF Buffered(s)
                     THEN [taken EXCEPT ![s] = Last(Last(Head(tasks).frames).samples)] ELSE taken
         /\ seen' = seenNow
         /\ IF Fires(freshNow, seenNow)
            THEN tpc' = "compute" /\ fresh' = {} /\ fired' = taken' /\ before' = fired
            ELSE tpc' = "finish" /\ fresh' = freshNow /\ UNCHANGED <<fired, before>>
  /\ tasks' = Tail(tasks)
  /\ UNCHANGED <<config, sent, pending, outputs, running, spc, shapes>>

\* After stop() has begun a task does nothing.
TaskSkipped ==
  /\ tpc = "idle" /\ tasks # <<>> /\ ~running
  /\ tasks' = Tail(tasks)
  /\ tpc' = "finish"
  /\ UNCHANGED <<config, sent, pending, outputs, bufferVars, running, spc, historyVars>>

\* fireCompute(): the algorithm returns some outputs ...
Compute ==
  /\ tpc = "compute"
  /\ outputs' \in 0 .. MaxOutputs
  /\ tpc' = "push"
  /\ UNCHANGED <<config, sent, tasks, pending, bufferVars, running, spc, historyVars>>

\* ... or throws, and the update is lost.
ComputeFails ==
  /\ tpc = "compute"
  /\ tpc' = "finish"
  /\ UNCHANGED <<config, sent, tasks, pending, outputs, bufferVars, running, spc, historyVars>>

\* bus_->push() of the next output, until there is none left.
PushOutput ==
  /\ tpc = "push"
  /\ outputs' = IF outputs = 0 THEN 0 ELSE outputs - 1
  /\ tpc' = IF outputs = 0 THEN "finish" ELSE "push"
  /\ UNCHANGED <<config, sent, tasks, pending, bufferVars, running, spc, historyVars>>

\* --pending_tasks_, and go on to notify if it is zero.
TaskFinish ==
  /\ tpc = "finish"
  /\ pending' = pending - 1
  /\ tpc' = IF pending' = 0 THEN "notify" ELSE "idle"
  /\ UNCHANGED <<config, sent, tasks, outputs, bufferVars, running, spc, historyVars>>

\* drain_cv_.notify_all(), without drain_mutex_.
TaskNotify ==
  /\ tpc = "notify"
  /\ tpc' = "idle"
  /\ spc' = IF spc = "asleep" THEN "test" ELSE spc
  /\ UNCHANGED <<config, sent, tasks, pending, outputs, bufferVars, running, historyVars>>

-----------------------------------------------------------------------------
(* stop() and the destructor *)

StopBegin ==
  /\ spc = "none"
  /\ running' = FALSE
  /\ spc' = "test"
  /\ UNCHANGED <<config, sent, tasks, pending, tpc, outputs, bufferVars, historyVars>>

\* Defect: stop() waits for the queue of the pool, not for the task that runs.
StopTestQueueOnly ==
  /\ spc = "test"
  /\ spc' = IF tasks = <<>> THEN "clear" ELSE "blocking"
  /\ UNCHANGED <<config, sent, tasks, pending, tpc, outputs, bufferVars, running, historyVars>>

\* The predicate of drain_cv_.wait(), under drain_mutex_.
StopTest ==
  /\ spc = "test"
  /\ spc' = IF pending = 0 THEN "clear" ELSE "blocking"
  /\ UNCHANGED <<config, sent, tasks, pending, tpc, outputs, bufferVars, running, historyVars>>

StopBlock ==
  /\ spc = "blocking"
  /\ spc' = "asleep"
  /\ UNCHANGED <<config, sent, tasks, pending, tpc, outputs, bufferVars, running, historyVars>>

StopSpuriousWakeup ==
  /\ spc = "asleep"
  /\ spc' = "test"
  /\ UNCHANGED <<config, sent, tasks, pending, tpc, outputs, bufferVars, running, historyVars>>

\* buffer_.clear()
StopClear ==
  /\ spc = "clear"
  /\ slots' = [s \in Sources |-> EmptySlot]
  /\ fresh' = {}
  /\ seen' = {}
  /\ spc' = "stopped"
  /\ UNCHANGED <<config, sent, tasks, pending, tpc, outputs, running, historyVars>>

\* The controller's processors_.clear() destroys the processor right after its stop().
Destroy ==
  /\ spc = "stopped"
  /\ spc' = "destroyed"
  /\ UNCHANGED <<config, sent, tasks, pending, tpc, outputs, bufferVars, running, historyVars>>

\* The processor is gone and the pool thread idle.
Terminated ==
  /\ spc = "destroyed" /\ tpc = "idle" /\ tasks = <<>>
  /\ UNCHANGED vars

Next ==
  \/ \E s \in Sources : Push(s)
  \/ TaskBegin \/ TaskSkipped \/ Compute \/ ComputeFails \/ PushOutput \/ TaskFinish \/ TaskNotify
  \/ StopBegin \/ StopTest \/ StopBlock \/ StopSpuriousWakeup \/ StopClear \/ Destroy
  \/ Terminated

Spec == Init /\ [][Next]_vars

-----------------------------------------------------------------------------
\* Once stop() has found pending_tasks_ at zero no task runs or waits: nothing is computed,
\* pushed or ingested any more, and buffer_ may be cleared without a lock.
QuietAfterStop ==
  spc \in {"clear", "stopped", "destroyed"} => tasks = <<>> /\ tpc \in {"idle", "notify"}

\* all-updated fires only when every source it waits for has sent something new since the
\* algorithm fired last, compute() failures included.
AllUpdatedIsFresh ==
  tpc \in {"compute", "push"} /\ config.trigger = "all-updated" =>
    \A s \in Needed : fired[s] > before[s]

\* all-updated never misses its turn: between two tasks some source it waits for has sent
\* nothing since the algorithm fired last.
NoMissedFiring ==
  tpc = "idle" /\ running /\ config.trigger = "all-updated" /\ Needed # {} =>
    \E s \in Needed : taken[s] = fired[s]

\* The samples from i to j.
Run(i, j) == [k \in 1 .. j - i + 1 |-> i + k - 1]

\* As long as a source keeps its layout, its slot holds the newest samples the buffer has
\* taken in, in order, each value beside its timestamp, and as many as max_depth allows.
\* A slot never outgrows max_depth, whatever layouts its source mixes, and never holds more
\* values than timestamps.
SlotIsNewest ==
  /\ \A s \in Sources :
       spc \in {"none", "test", "blocking", "asleep"} /\ Cardinality(shapes[s]) = 1 =>
         LET n == Len(slots[s].ts)
         IN  /\ slots[s].vals = slots[s].ts
             /\ slots[s].ts = Run(taken[s] - n + 1, taken[s])
             /\ ~config.latest =>
                  n = IF config.maxDepth = 0 \/ taken[s] < config.maxDepth
                      THEN taken[s] ELSE config.maxDepth
  /\ \A s \in Sources : /\ config.maxDepth > 0 => Len(slots[s].ts) <= config.maxDepth
                        /\ Len(slots[s].vals) <= Len(slots[s].ts)

\* The pool thread is done with drain_cv_ when the processor is destroyed.
NotifyBeforeDestroy == spc = "destroyed" => tpc # "notify"
=============================================================================
