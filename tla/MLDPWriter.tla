----------------------------- MODULE MLDPWriter -----------------------------
(***************************************************************************)
(* MLDPWriter and the MLDPGrpcIngestionePool it takes its connections      *)
(* from.  Each worker of the BaseQueuedWriter keeps one ingestion stream   *)
(* on one pooled connection, rotates it by age, by bytes and by number of  *)
(* requests, and hands a closed stream to a pool of one thread that waits  *)
(* for the server's answer and only then gives the connection back.        *)
(*                                                                         *)
(* The channels are those of QueuedWriter, here plain sequences.  A frame  *)
(* is its place in the batch it came with and the size of its request;     *)
(* time is the single fact that a stream has reached stream-max-age-ms.    *)
(***************************************************************************)
EXTENDS Integers, Sequences, FiniteSets

CONSTANTS
  WorkerCount,         \* thread-pool
  MinConnections,      \* mldp-pool.min-conn
  MaxConnections,      \* mldp-pool.max-conn
  StreamMaxBytes,      \* stream-max-bytes
  MaxFramesPerStream,  \* max-frames-per-stream
  Batches,             \* batches offered: sequences of request sizes
  MaxItems             \* bound: items accepted in one behaviour

Workers == 1 .. WorkerCount
Items == 1 .. MaxItems

\* Sizes that are not sizes of a request: a frame without timestamps, and one
\* from which no column can be built.
NoTimestamps == -2
NoColumns == -1
Sizes == (Nat \ {0}) \cup {NoTimestamps, NoColumns}

ASSUME WriterAssumption ==
  /\ WorkerCount \in Nat \ {0}
  /\ MinConnections \in Nat \ {0}
  /\ MaxConnections \in Nat /\ MinConnections <= MaxConnections
  /\ StreamMaxBytes \in Nat \ {0}
  /\ MaxFramesPerStream \in Nat \ {0}
  /\ Batches \subseteq Seq(Sizes)
  /\ MaxItems \in Nat

VARIABLES
  phase,          \* how far start(), stop() and doStop() have come
  forceQuit,      \* forceQuit_
  accepted,       \* items accepted so far
  queue,          \* channels_: items waiting for each worker
  pc,             \* control point of each worker
  resume,         \* where the worker goes on once its stream is open
  hand,           \* frames of the item in the worker's hands, unsent
  handle,         \* workerStates_[w].handle: its connection, or NoConnection
  writer,         \* workerStates_[w].writer is set
  aged,           \* the stream has reached stream-max-age-ms
  payloadBytes,   \* streamPayloadBytes
  framesWritten,  \* framesWritten
  sent,           \* history: frames written to the open stream
  closing,        \* tasks of closePool_, the running one first
  inUse,          \* items_ of the pool: in_use of each connection
  ingested,       \* history: frames of streams the server finished well
  failed,         \* history: frames dropped with a writer failure counted
  offered         \* history: sendable frames of the accepted items

lifeVars == <<phase, forceQuit>>
queueVars == <<accepted, queue, offered>>
workVars == <<pc, resume, hand>>
streamVars == <<handle, writer, aged, payloadBytes, framesWritten, sent>>
resultVars == <<ingested, failed>>
vars == <<lifeVars, queueVars, workVars, streamVars, closing, inUse, resultVars>>

NoConnection == 0
Connections == 1 .. MaxConnections
Frame == [item : Items, index : Nat \ {0}, size : Sizes]
ClosingStream == [connection : Connections, frames : Seq(Frame)]
FramesOf(frames) == {frames[i] : i \in DOMAIN frames}
Sendable(f) == f.size > 0

LifeTypes ==
  /\ phase \in {"new", "running", "failed", "stopping", "stopped"}
  /\ forceQuit \in BOOLEAN

QueueTypes ==
  /\ accepted \in 0 .. MaxItems
  /\ queue \in [Workers -> Seq(Seq(Frame))]
  /\ offered \subseteq Frame

WorkTypes ==
  /\ pc \in [Workers -> {"wait", "acquire", "open", "age", "frame", "exited"}]
  /\ resume \in [Workers -> {"age", "frame"}]
  /\ hand \in [Workers -> Seq(Frame)]

StreamTypes ==
  /\ handle \in [Workers -> Connections \cup {NoConnection}]
  /\ writer \in [Workers -> BOOLEAN]
  /\ aged \in [Workers -> BOOLEAN]
  /\ payloadBytes \in [Workers -> Nat]
  /\ framesWritten \in [Workers -> Nat]
  /\ sent \in [Workers -> Seq(Frame)]

PoolTypes ==
  /\ closing \in Seq(ClosingStream)
  /\ inUse \in Seq(BOOLEAN) /\ Len(inUse) <= MaxConnections

ResultTypes == ingested \subseteq Frame /\ failed \subseteq Frame

TypeOK == LifeTypes /\ QueueTypes /\ WorkTypes /\ StreamTypes /\ PoolTypes /\ ResultTypes

Init ==
  /\ phase = "new" /\ forceQuit = FALSE
  /\ accepted = 0 /\ offered = {}
  /\ queue = [w \in Workers |-> <<>>]
  /\ pc = [w \in Workers |-> "wait"]
  /\ resume = [w \in Workers |-> "age"]
  /\ hand = [w \in Workers |-> <<>>]
  /\ handle = [w \in Workers |-> NoConnection]
  /\ writer = [w \in Workers |-> FALSE]
  /\ aged = [w \in Workers |-> FALSE]
  /\ payloadBytes = [w \in Workers |-> 0]
  /\ framesWritten = [w \in Workers |-> 0]
  /\ sent = [w \in Workers |-> <<>>]
  /\ closing = <<>> /\ inUse = <<>>
  /\ ingested = {} /\ failed = {}

-----------------------------------------------------------------------------
(* start(): the pool opens MinConnections and registers the provider. *)

Start ==
  /\ phase = "new"
  /\ phase' = "running"
  /\ inUse' = [c \in 1 .. MinConnections |-> FALSE]
  /\ UNCHANGED <<forceQuit, queueVars, workVars, streamVars, closing, resultVars>>

\* The provider is refused: start() throws, the workers run without a pool.
StartFails ==
  /\ phase = "new"
  /\ phase' = "failed"
  /\ UNCHANGED <<forceQuit, queueVars, workVars, streamVars, closing, inUse, resultVars>>

-----------------------------------------------------------------------------
(* push(): toItems() makes one item of a batch, or none if no frame has     *)
(* timestamps.  The frames it drops stay in the item here and are never     *)
(* sent, as those from which processItem() builds no column.                *)

toItems(batch) == [i \in DOMAIN batch |-> [item |-> accepted + 1, index |-> i, size |-> batch[i]]]

Push(w, batch) ==
  /\ phase = "running" /\ ~forceQuit
  /\ accepted < MaxItems
  /\ \E i \in DOMAIN batch : batch[i] # NoTimestamps
  /\ accepted' = accepted + 1
  /\ queue' = [queue EXCEPT ![w] = Append(@, toItems(batch))]
  /\ offered' = offered \cup {f \in FramesOf(toItems(batch)) : Sendable(f)}
  /\ UNCHANGED <<lifeVars, workVars, streamVars, closing, inUse, resultVars>>

-----------------------------------------------------------------------------
(* The connection pool. *)

Idle(c) == c \in DOMAIN inUse /\ ~inUse[c]

\* acquire(): the first idle connection, else a new one; nothing while all
\* MaxConnections are busy, which is looked at again every 200 ms.
Acquire(w) ==
  /\ pc[w] = "acquire"
  /\ \/ \E c \in DOMAIN inUse :
          /\ Idle(c) /\ \A d \in 1 .. c - 1 : ~Idle(d)
          /\ inUse' = [inUse EXCEPT ![c] = TRUE]
          /\ handle' = [handle EXCEPT ![w] = c]
     \/ /\ \A c \in DOMAIN inUse : ~Idle(c)
        /\ Len(inUse) < MaxConnections
        /\ inUse' = Append(inUse, TRUE)
        /\ handle' = [handle EXCEPT ![w] = Len(inUse) + 1]
  /\ pc' = [pc EXCEPT ![w] = "open"]
  /\ UNCHANGED <<lifeVars, queueVars, resume, hand, writer, aged, payloadBytes, framesWritten,
                 sent, closing, resultVars>>

Release(c) == inUse' = [inUse EXCEPT ![c] = FALSE]

-----------------------------------------------------------------------------
(* The stream of a worker. *)

\* closeStream(): the stream, with the frames it carries, and its connection go
\* to the closing thread.
CloseStream(w, frames) ==
  /\ closing' = Append(closing, [connection |-> handle[w], frames |-> frames])
  /\ handle' = [handle EXCEPT ![w] = NoConnection]
  /\ writer' = [writer EXCEPT ![w] = FALSE]
  /\ aged' = [aged EXCEPT ![w] = FALSE]
  /\ payloadBytes' = [payloadBytes EXCEPT ![w] = 0]
  /\ framesWritten' = [framesWritten EXCEPT ![w] = 0]
  /\ sent' = [sent EXCEPT ![w] = <<>>]

\* ensureStream() after acquire().
OpenStream(w) ==
  /\ pc[w] = "open"
  /\ writer' = [writer EXCEPT ![w] = TRUE]
  /\ payloadBytes' = [payloadBytes EXCEPT ![w] = 0]
  /\ pc' = [pc EXCEPT ![w] = resume[w]]
  /\ UNCHANGED <<lifeVars, queueVars, resume, hand, handle, aged, framesWritten, sent, closing,
                 inUse, resultVars>>

\* The item in hand is given up, with a failure counted.
Abandon(w) ==
  /\ failed' = failed \cup {f \in FramesOf(hand[w]) : Sendable(f)}
  /\ hand' = [hand EXCEPT ![w] = <<>>]
  /\ pc' = [pc EXCEPT ![w] = "wait"]

\* Defect: the connection is not given back.
OpenFailsLeaks(w) ==
  /\ pc[w] = "open"
  /\ handle' = [handle EXCEPT ![w] = NoConnection]
  /\ Abandon(w)
  /\ UNCHANGED <<lifeVars, queueVars, resume, writer, aged, payloadBytes, framesWritten, sent,
                 closing, inUse, ingested>>

\* Defect: the stream is opened again until it succeeds.
OpenFailsRetries(w) ==
  /\ pc[w] = "open"
  /\ Release(handle[w])
  /\ handle' = [handle EXCEPT ![w] = NoConnection]
  /\ pc' = [pc EXCEPT ![w] = "acquire"]
  /\ UNCHANGED <<lifeVars, queueVars, resume, hand, writer, aged, payloadBytes, framesWritten, sent,
                 closing, resultVars>>

OpenFails(w) ==
  /\ pc[w] = "open"
  /\ Release(handle[w])
  /\ handle' = [handle EXCEPT ![w] = NoConnection]
  /\ Abandon(w)
  /\ UNCHANGED <<lifeVars, queueVars, resume, writer, aged, payloadBytes, framesWritten, sent,
                 closing, ingested>>

\* rotateStream(): close, then wait for a connection and open again.
RotateStream(w, frames) ==
  /\ CloseStream(w, frames)
  /\ pc' = [pc EXCEPT ![w] = "acquire"]
  /\ resume' = [resume EXCEPT ![w] = "frame"]

\* The steady clock passes streamStart + stream-max-age-ms.
StreamAges(w) ==
  /\ writer[w] /\ ~aged[w]
  /\ aged' = [aged EXCEPT ![w] = TRUE]
  /\ UNCHANGED <<lifeVars, queueVars, workVars, handle, writer, payloadBytes, framesWritten, sent,
                 closing, inUse, resultVars>>

-----------------------------------------------------------------------------
(* workerLoop() and processItem(). *)

WorkerTake(w) ==
  /\ pc[w] = "wait" /\ phase # "new"
  /\ ~forceQuit /\ queue[w] # <<>>
  /\ hand' = [hand EXCEPT ![w] = Head(queue[w])]
  /\ queue' = [queue EXCEPT ![w] = Tail(@)]
  /\ pc' = [pc EXCEPT ![w] = IF writer[w] THEN "age" ELSE "acquire"]
  /\ resume' = [resume EXCEPT ![w] = "age"]
  /\ UNCHANGED <<lifeVars, accepted, offered, streamVars, closing, inUse, resultVars>>

\* Defect: an idle worker keeps a stream that carries nothing.
WorkerIdleKeepsEmpty(w) ==
  /\ pc[w] = "wait" /\ phase = "running"
  /\ ~forceQuit /\ queue[w] = <<>>
  /\ writer[w] /\ aged[w] /\ framesWritten[w] > 0
  /\ CloseStream(w, sent[w])
  /\ UNCHANGED <<lifeVars, queueVars, workVars, inUse, resultVars>>

\* onWorkerIdle(): nothing came for stream-max-age-ms.
WorkerIdle(w) ==
  /\ pc[w] = "wait" /\ phase = "running"
  /\ ~forceQuit /\ queue[w] = <<>>
  /\ writer[w] /\ aged[w]
  /\ CloseStream(w, sent[w])
  /\ UNCHANGED <<lifeVars, queueVars, workVars, inUse, resultVars>>

\* The worker leaves; its stream stays open until doStop().
WorkerExit(w) ==
  /\ pc[w] = "wait" /\ phase # "new"
  /\ forceQuit \/ (phase = "stopping" /\ queue[w] = <<>>)
  /\ pc' = [pc EXCEPT ![w] = "exited"]
  /\ UNCHANGED <<lifeVars, queueVars, resume, hand, streamVars, closing, inUse, resultVars>>

StreamYoung(w) ==
  /\ pc[w] = "age" /\ ~aged[w]
  /\ pc' = [pc EXCEPT ![w] = "frame"]
  /\ UNCHANGED <<lifeVars, queueVars, resume, hand, streamVars, closing, inUse, resultVars>>

RotateByAge(w) ==
  /\ pc[w] = "age" /\ aged[w]
  /\ RotateStream(w, sent[w])
  /\ UNCHANGED <<lifeVars, queueVars, hand, inUse, resultVars>>

SkipFrame(w) ==
  /\ pc[w] = "frame" /\ hand[w] # <<>>
  /\ ~Sendable(Head(hand[w]))
  /\ hand' = [hand EXCEPT ![w] = Tail(@)]
  /\ UNCHANGED <<lifeVars, queueVars, pc, resume, streamVars, closing, inUse, resultVars>>

\* Defect: the size of the next frame is left out.
OverflowsLate(w) == payloadBytes[w] > StreamMaxBytes

\* The next frame does not fit and the stream is not empty.
Overflows(w) ==
  /\ payloadBytes[w] + Head(hand[w]).size > StreamMaxBytes
  /\ payloadBytes[w] > 0

RotateByBytes(w) ==
  /\ pc[w] = "frame" /\ hand[w] # <<>>
  /\ Sendable(Head(hand[w])) /\ Overflows(w)
  /\ RotateStream(w, sent[w])
  /\ UNCHANGED <<lifeVars, queueVars, hand, inUse, resultVars>>

\* A frame goes out and leaves room for another request.
WriteFrame(w) ==
  /\ pc[w] = "frame" /\ hand[w] # <<>>
  /\ Sendable(Head(hand[w])) /\ ~Overflows(w)
  /\ framesWritten[w] + 1 < MaxFramesPerStream
  /\ sent' = [sent EXCEPT ![w] = Append(@, Head(hand[w]))]
  /\ framesWritten' = [framesWritten EXCEPT ![w] = @ + 1]
  /\ payloadBytes' = [payloadBytes EXCEPT ![w] = @ + Head(hand[w]).size]
  /\ hand' = [hand EXCEPT ![w] = Tail(@)]
  /\ UNCHANGED <<lifeVars, queueVars, pc, resume, handle, writer, aged, closing, inUse, resultVars>>

\* A frame goes out as the last request of its stream, which is rotated.
WriteLastFrame(w) ==
  /\ pc[w] = "frame" /\ hand[w] # <<>>
  /\ Sendable(Head(hand[w])) /\ ~Overflows(w)
  /\ framesWritten[w] + 1 >= MaxFramesPerStream
  /\ RotateStream(w, Append(sent[w], Head(hand[w])))
  /\ hand' = [hand EXCEPT ![w] = Tail(@)]
  /\ UNCHANGED <<lifeVars, queueVars, inUse, resultVars>>

\* Defect: only the frame that failed is counted.
WriteFailsCountsOne(w) ==
  /\ pc[w] = "frame" /\ hand[w] # <<>>
  /\ Sendable(Head(hand[w])) /\ ~Overflows(w)
  /\ CloseStream(w, sent[w])
  /\ failed' = failed \cup {Head(hand[w])}
  /\ hand' = [hand EXCEPT ![w] = <<>>]
  /\ pc' = [pc EXCEPT ![w] = "wait"]
  /\ UNCHANGED <<lifeVars, queueVars, resume, inUse, ingested>>

\* Write() returns false: the rest of the item is dropped with the stream.
WriteFails(w) ==
  /\ pc[w] = "frame" /\ hand[w] # <<>>
  /\ Sendable(Head(hand[w])) /\ ~Overflows(w)
  /\ CloseStream(w, sent[w])
  /\ Abandon(w)
  /\ UNCHANGED <<lifeVars, queueVars, resume, inUse, ingested>>

ItemDone(w) ==
  /\ pc[w] = "frame" /\ hand[w] = <<>>
  /\ pc' = [pc EXCEPT ![w] = "wait"]
  /\ IF aged[w] \/ payloadBytes[w] >= StreamMaxBytes
       THEN CloseStream(w, sent[w])
       ELSE UNCHANGED <<streamVars, closing>>
  /\ UNCHANGED <<lifeVars, queueVars, resume, hand, inUse, resultVars>>

-----------------------------------------------------------------------------
(* The closing thread: Finish() blocks until the server answers; the       *)
(* connection is given back when the task is destroyed.                    *)

FinishStream ==
  /\ closing # <<>>
  /\ Release(Head(closing).connection)
  /\ ingested' = ingested \cup FramesOf(Head(closing).frames)
  /\ closing' = Tail(closing)
  /\ UNCHANGED <<lifeVars, queueVars, workVars, streamVars, failed>>

\* The status is not ok or the result is exceptional: a failure is counted.
FinishFails ==
  /\ closing # <<>>
  /\ Release(Head(closing).connection)
  /\ failed' = failed \cup FramesOf(Head(closing).frames)
  /\ closing' = Tail(closing)
  /\ UNCHANGED <<lifeVars, queueVars, workVars, streamVars, ingested>>

-----------------------------------------------------------------------------
(* stop(), doStop() and forceStop(). *)

StopBegin ==
  /\ phase \in {"running", "failed"}
  /\ phase' = "stopping"
  /\ UNCHANGED <<forceQuit, queueVars, workVars, streamVars, closing, inUse, resultVars>>

AllExited == \A w \in Workers : pc[w] = "exited"

\* doStop(): closeStream() for every stream still open, in the order of workerStates_.
DoStop(w) ==
  /\ phase = "stopping" /\ AllExited
  /\ writer[w] /\ \A v \in 1 .. w - 1 : ~writer[v]
  /\ CloseStream(w, sent[w])
  /\ UNCHANGED <<lifeVars, queueVars, workVars, inUse, resultVars>>

AllClosed == \A w \in Workers : ~writer[w]

\* Defect: doStop() does not wait for the closing thread.
StopEndAtOnce ==
  /\ phase = "stopping" /\ AllExited /\ AllClosed
  /\ phase' = "stopped"
  /\ UNCHANGED <<forceQuit, queueVars, workVars, streamVars, closing, inUse, resultVars>>

\* closePool_->wait() returns; the pool is dropped, its last state kept here.
StopEnd ==
  /\ phase = "stopping" /\ AllExited /\ AllClosed
  /\ closing = <<>>
  /\ phase' = "stopped"
  /\ UNCHANGED <<forceQuit, queueVars, workVars, streamVars, closing, inUse, resultVars>>

ForceStop ==
  /\ phase \in {"running", "stopping"} /\ ~forceQuit
  /\ forceQuit' = TRUE
  /\ UNCHANGED <<phase, queueVars, workVars, streamVars, closing, inUse, resultVars>>

Terminated ==
  /\ phase = "stopped"
  /\ UNCHANGED vars

-----------------------------------------------------------------------------

SendStep(w) ==
  \/ StreamYoung(w) \/ RotateByAge(w)
  \/ SkipFrame(w) \/ RotateByBytes(w)
  \/ WriteFrame(w) \/ WriteLastFrame(w) \/ WriteFails(w)
  \/ ItemDone(w)

WorkerStep(w) ==
  \/ WorkerTake(w) \/ WorkerIdle(w) \/ WorkerExit(w)
  \/ Acquire(w) \/ OpenStream(w) \/ OpenFails(w)
  \/ SendStep(w)

CloseStep == FinishStream \/ FinishFails

StopStep == (\E w \in Workers : DoStop(w)) \/ StopEnd

Next ==
  \/ Start \/ StartFails
  \/ \E w \in Workers : \E batch \in Batches : Push(w, batch)
  \/ \E w \in Workers : WorkerStep(w) \/ StreamAges(w)
  \/ CloseStep
  \/ StopBegin \/ StopStep \/ ForceStop
  \/ Terminated

Spec == Init /\ [][Next]_vars

\* Threads are scheduled and the server answers Finish().
FairSpec ==
  /\ Spec
  /\ \A w \in Workers : WF_vars(WorkerStep(w))
  /\ WF_vars(CloseStep)
  /\ WF_vars(StopStep)

-----------------------------------------------------------------------------
(* Properties. *)

\* The owners of a connection: handles of workers and of closing streams.
Owners(c) ==
  {<<"worker", w>> : w \in {v \in Workers : handle[v] = c}}
    \cup {<<"closing", i>> : i \in {j \in DOMAIN closing : closing[j].connection = c}}

\* A pooled connection is in use exactly while one handle owns it: none leaks
\* when a stream fails to open, fails to write or is closed in the background,
\* and no two streams share one (acquire(), release(), PooledHandle).
ConnectionsOwned ==
  \A c \in DOMAIN inUse :
    /\ inUse[c] <=> Owners(c) # {}
    /\ \A x, y \in Owners(c) : x = y

Bytes(frames) ==
  LET sum[i \in 0 .. Len(frames)] == IF i = 0 THEN 0 ELSE sum[i - 1] + frames[i].size
  IN  sum[Len(frames)]

WithinLimits(frames) ==
  /\ Len(frames) <= MaxFramesPerStream
  /\ Bytes(frames) <= StreamMaxBytes \/ Len(frames) = 1

\* No stream, open or closing, carries more requests than max-frames-per-stream
\* or more bytes than stream-max-bytes, unless it is a single request larger
\* than that (processItem()'s three rotations and closeStream()'s resets).
StreamLimits ==
  /\ \A w \in Workers : sent[w] # <<>> => WithinLimits(sent[w])
  /\ \A i \in DOMAIN closing : WithinLimits(closing[i].frames)

\* The places an accepted frame can be in.
Waiting == UNION {UNION {FramesOf(queue[w][i]) : i \in DOMAIN queue[w]} : w \in Workers}
InHand == UNION {FramesOf(hand[w]) : w \in Workers}
InStream == UNION {FramesOf(sent[w]) : w \in Workers}
InClosing == UNION {FramesOf(closing[i].frames) : i \in DOMAIN closing}

\* Each sendable frame of an accepted item is in exactly one place: waiting, in
\* a worker's hands, in an open or a closing stream, ingested, or dropped with a
\* writer failure counted.  None is sent twice and none disappears without a
\* failure, whatever step of processItem() fails.
FramesAccounted ==
  \A f \in offered :
    Cardinality({p \in 1 .. 6 : f \in <<Waiting, InHand, InStream, InClosing, ingested, failed>>[p]}) = 1

\* When stop() has returned no connection is in use and no stream is open, and
\* unless forceStop() was called every frame has been ingested or counted as
\* failed (stop() drains the channels, doStop() waits for the closing thread).
StopFlushes ==
  phase = "stopped" =>
    /\ \A c \in DOMAIN inUse : ~inUse[c]
    /\ \A w \in Workers : ~writer[w]
    /\ ~forceQuit => offered \subseteq ingested \cup failed

\* stop() returns: workers waiting for a connection get one and drain their
\* channels, and the closing thread gets to the end of its queue.
StopReturns == phase = "stopping" ~> phase = "stopped"

\* A stream that has reached stream-max-age-ms is closed, also when its worker
\* has nothing to send (onWorkerIdle()), unless the workers are told to quit.
AgedStreamsClose == \A w \in Workers : aged[w] ~> (~aged[w] \/ forceQuit)
=============================================================================
