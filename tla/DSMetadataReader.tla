-------------------------- MODULE DSMetadataReader --------------------------
(***************************************************************************)
(* The EPICS directory-service reader.  Each scan makes one RPC that       *)
(* returns a table and then asks for the attributes of the listed PVs, one *)
(* by one.  With one thread a table is published where it arrives; with    *)
(* more, a bounded queue hands it to consumers, while the sweep over the   *)
(* PV list is always published by the scanning thread.                     *)
(*                                                                         *)
(* A table or a sweep entry is known by its scan.  Of its contents only    *)
(* whether parsing throws is modelled: such a table is accepted and then   *)
(* dropped.  An RPC answers, fails or is interrupted by stop.              *)
(***************************************************************************)
EXTENDS Naturals, Sequences, FiniteSets

CONSTANTS
  ThreadCounts,    \* the values of worker-thread-count
  MaxQueueDepth,   \* max-queue-depth
  NumPVs,          \* entries of config_.pvs()
  MaxDsScans,      \* bound: scans
  MaxRpcErrors,    \* bound: scans whose RPC fails
  MaxBadTables     \* bound: scans whose table cannot be parsed

VARIABLES
  threadCount,     \* worker-thread-count of this reader
  dsOneShot,       \* rescan-interval-sec = 0
  stopAsked,       \* the stop token of worker_thread_
  scanner,         \* pc of runWorker(): "rpc", "dispatch", "sweep", "pause",
                   \* "close", "drain", "signal" or "ended"
  owner,           \* pc of the destructor: "alive", "join", "drain" or "gone"
  scanNo,          \* scans begun
  swept,           \* PVs of this scan swept so far
  results,         \* result_queue_: tables on their way
  closed,          \* closed_ of the queue
  consumer,        \* consumer -> the table it holds, 0: none, or Ended
  onBus,           \* what reached the bus: <<"table", scan>>, <<"sweep", scan>>
  unreadable,      \* the scans whose table parseNTTable() throws on
  accepted,        \* history: the tables dispatch_fn_ took
  dsCompleted,     \* calls of signalCompleted()
  rpcErrors        \* failed RPCs so far

dsVars == <<threadCount, dsOneShot, stopAsked, scanner, owner, scanNo, swept, results,
            closed, consumer, onBus, unreadable, accepted, dsCompleted, rpcErrors>>

Consumers == 1 .. threadCount - 1
Ended     == MaxDsScans + 1
dsConfig  == <<threadCount, dsOneShot>>

DirectoryInit ==
  /\ threadCount \in ThreadCounts /\ dsOneShot \in BOOLEAN
  /\ stopAsked = FALSE /\ scanner = "rpc" /\ owner = "alive"
  /\ scanNo = 1 /\ swept = 0
  /\ results = <<>> /\ closed = FALSE /\ consumer = [c \in Consumers |-> 0]
  /\ onBus = <<>> /\ unreadable = {} /\ accepted = {} /\ dsCompleted = 0 /\ rpcErrors = 0

-----------------------------------------------------------------------------
(* runWorker()                                                             *)

\* The RPC answers with a table, one that cannot be parsed or not at all, or is
\* interrupted by the stop callback.
Rpc ==
  /\ scanner = "rpc"
  /\ \/ stopAsked /\ scanner' = "ended" /\ UNCHANGED <<unreadable, rpcErrors>>
     \/ ~stopAsked /\ scanner' = "dispatch" /\ UNCHANGED <<unreadable, rpcErrors>>
     \/ /\ ~stopAsked /\ Cardinality(unreadable) < MaxBadTables
        /\ unreadable' = unreadable \cup {scanNo}
        /\ scanner' = "dispatch" /\ UNCHANGED rpcErrors
     \/ /\ ~stopAsked /\ rpcErrors < MaxRpcErrors
        /\ rpcErrors' = rpcErrors + 1
        /\ scanner' = "pause" /\ UNCHANGED unreadable
  /\ UNCHANGED <<dsConfig, stopAsked, owner, scanNo, swept, results, closed, consumer, onBus,
                 accepted, dsCompleted>>

\* processResult(): an exception of parseNTTable() leaves it before the push.
Publish(n) ==
  onBus' = IF n \in unreadable THEN onBus ELSE Append(onBus, <<"table", n>>)

\* dispatch_fn_: publish inline, or wait for room in the queue.  A stop ends
\* the wait and the table is queued all the same; a closed queue refuses it.
\* An exception of the inline publication ends the scan without its sweep.
Dispatch ==
  /\ scanner = "dispatch"
  /\ IF threadCount = 1
     THEN /\ Publish(scanNo)
          /\ scanner' = IF scanNo \in unreadable THEN "pause" ELSE "sweep"
          /\ UNCHANGED results
     ELSE /\ Len(results) < MaxQueueDepth \/ stopAsked \/ closed
          /\ results' = IF closed THEN results ELSE Append(results, scanNo)
          /\ scanner' = IF closed THEN "ended" ELSE "sweep"
          /\ UNCHANGED onBus
  /\ accepted' = IF threadCount > 1 /\ closed THEN accepted ELSE accepted \cup {scanNo}
  /\ UNCHANGED <<dsConfig, unreadable, stopAsked, owner, scanNo, swept, closed, consumer,
                 dsCompleted, rpcErrors>>

\* runPVListSweep(): one PV at a time, left early on a stop.
Sweep ==
  /\ scanner = "sweep"
  /\ IF swept = NumPVs \/ stopAsked
     THEN scanner' = "pause" /\ swept' = 0 /\ UNCHANGED onBus
     ELSE /\ swept' = swept + 1
          /\ onBus' = Append(onBus, <<"sweep", scanNo>>)
          /\ UNCHANGED scanner
  /\ UNCHANGED <<dsConfig, unreadable, stopAsked, owner, scanNo, results, closed, consumer,
                 accepted, dsCompleted, rpcErrors>>

\* The end of a scan: a one-shot reader drains its consumers and completes,
\* another one sleeps until the next scan or the stop.
Pause ==
  /\ scanner = "pause"
  /\ \/ /\ ~stopAsked /\ dsOneShot
        /\ IF threadCount = 1 THEN scanner' = "signal" /\ UNCHANGED closed
                              ELSE scanner' = "drain" /\ closed' = TRUE
        /\ UNCHANGED scanNo
     \/ /\ ~stopAsked /\ ~dsOneShot /\ scanNo < MaxDsScans
        /\ scanNo' = scanNo + 1 /\ scanner' = "rpc" /\ UNCHANGED closed
     \/ stopAsked /\ scanner' = "ended" /\ UNCHANGED <<closed, scanNo>>
  /\ UNCHANGED <<dsConfig, unreadable, stopAsked, owner, swept, results, consumer, onBus,
                 accepted, dsCompleted, rpcErrors>>

AllConsumersEnded == \A c \in Consumers : consumer[c] = Ended

\* drainResultConsumers() of the worker, then signalCompleted().
Complete ==
  /\ scanner = "signal" \/ (scanner = "drain" /\ AllConsumersEnded)
  /\ dsCompleted' = dsCompleted + 1
  /\ scanner' = "ended"
  /\ UNCHANGED <<dsConfig, unreadable, stopAsked, owner, scanNo, swept, results, closed,
                 consumer, onBus, accepted, rpcErrors>>

-----------------------------------------------------------------------------
(* runConsumer()                                                           *)

\* Defect: a closed queue ends the consumer although tables wait in it.
PopUntilClosed == results # <<>> /\ ~closed

\* RpcResultQueue::pop() has a table to give.
PopReturns == results # <<>>

\* RpcResultQueue::pop(): empty and closed ends the consumer.
ConsumerPop(c) ==
  /\ consumer[c] = 0
  /\ IF PopReturns
     THEN /\ consumer' = [consumer EXCEPT ![c] = Head(results)]
          /\ results' = Tail(results)
     ELSE /\ closed /\ consumer' = [consumer EXCEPT ![c] = Ended]
          /\ UNCHANGED results
  /\ UNCHANGED <<dsConfig, unreadable, stopAsked, scanner, owner, scanNo, swept, closed, onBus,
                 accepted, dsCompleted, rpcErrors>>

\* processResult(): the consumer survives an exception and goes on.
ConsumerPublish(c) ==
  /\ consumer[c] \in 1 .. MaxDsScans
  /\ Publish(consumer[c])
  /\ consumer' = [consumer EXCEPT ![c] = 0]
  /\ UNCHANGED <<dsConfig, unreadable, stopAsked, scanner, owner, scanNo, swept, results,
                 closed, accepted, dsCompleted, rpcErrors>>

-----------------------------------------------------------------------------
(* The destructor: stop and join the worker, close the queue, join the rest *)

RequestStop ==
  /\ owner = "alive"
  /\ stopAsked' = TRUE /\ owner' = "join"
  /\ UNCHANGED <<dsConfig, unreadable, scanner, scanNo, swept, results, closed, consumer,
                 onBus, accepted, dsCompleted, rpcErrors>>

JoinWorker ==
  /\ owner = "join" /\ scanner = "ended"
  /\ owner' = "drain"
  /\ closed' = (threadCount > 1)
  /\ UNCHANGED <<dsConfig, unreadable, stopAsked, scanner, scanNo, swept, results, consumer,
                 onBus, accepted, dsCompleted, rpcErrors>>

JoinConsumers ==
  /\ owner = "drain" /\ AllConsumersEnded
  /\ owner' = "gone"
  /\ UNCHANGED <<dsConfig, unreadable, stopAsked, scanner, scanNo, swept, results, closed,
                 consumer, onBus, accepted, dsCompleted, rpcErrors>>

DirectoryNext ==
  \/ Rpc \/ Dispatch \/ Sweep \/ Pause \/ Complete
  \/ RequestStop \/ JoinWorker \/ JoinConsumers
  \/ \E c \in Consumers : ConsumerPop(c) \/ ConsumerPublish(c)

DirectorySpec == DirectoryInit /\ [][DirectoryNext]_dsVars

-----------------------------------------------------------------------------

Position(entry) == {i \in DOMAIN onBus : onBus[i] = entry}

\* Once completion is reported, or the destructor returns, every table that
\* was accepted and can be parsed has been published, exactly once, also by a
\* stop that comes while the queue is full (drainResultConsumers); one that
\* cannot be parsed costs only itself: no consumer ends and no other table is
\* lost.  With at most one consumer the tables are published in the order of
\* their scans.
TablesPublished ==
  /\ \A i, j \in DOMAIN onBus :
       (onBus[i][1] = "table" /\ onBus[j][1] = "table" /\ i < j)
         => (onBus[i][2] # onBus[j][2] /\ (threadCount <= 2 => onBus[i][2] < onBus[j][2]))
  /\ \A n \in unreadable : Position(<<"table", n>>) = {}
  /\ dsCompleted = 1 \/ owner = "gone" =>
       \A n \in accepted \ unreadable : Position(<<"table", n>>) # {}
  /\ dsCompleted <= 1
=============================================================================
