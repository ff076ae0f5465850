---------------------------- MODULE ReaderProofs ----------------------------
(***************************************************************************)
(* The three readers that fetch over the network on their own threads.     *)
(*                                                                         *)
(* DSMetadataReader: every accepted table that can be parsed is published  *)
(* exactly once before completion is reported or the destructor returns,   *)
(* for any number of consumers, scans, failed RPCs and any queue depth,    *)
(* and an exception costs its own table only.  The invariant follows a     *)
(* table on its way.  The queue is ordered, and what has left it is older  *)
(* than what is in it, so that a table is in one place only; consumers end *)
(* only with the queue closed and empty, and it is closed only when the    *)
(* scanner queues nothing any more.                                        *)
(*                                                                         *)
(* ArchiverReader: the samples of a PV arrive once, in order and without a *)
(* gap.  The invariant says where every sample that is due is: pushed,     *)
(* lost with a broken stream, in an open stream, or behind a PV that waits *)
(* in the queue; and that the watermark, which makes a tail window drop    *)
(* the sample it shares with the one before, never passes one that is not  *)
(* on its way.                                                             *)
(*                                                                         *)
(* CalendarReader: the activations of a scan lie apart and cover exactly   *)
(* what was posted, although events cross the windows and are fetched      *)
(* again.  Between two windows, what was pushed ended before the next one, *)
(* one activation of a name is held back, and an event that reaches on     *)
(* belongs to it.  What a window makes of its answer is a fold over an     *)
(* order of the answer, a sort and a fold for each name; lemmas say what   *)
(* these return, by induction over their places.                           *)
(***************************************************************************)
EXTENDS DSMetadataReader, ArchiverReader, CalendarReader, FiniteSetTheorems, WellFoundedInduction,
        TLAPS

-----------------------------------------------------------------------------
(* DSMetadataReader                                                        *)

\* A reader has at least one thread; the bound admits the first scan.
Bounds == ThreadCounts \subseteq Nat \ {0} /\ MaxDsScans \in Nat \ {0}

Scans   == 1 .. MaxDsScans
Entries == {"table", "sweep"} \X Scans
IsTable(k) == onBus[k][1] = "table"
Holds(c)   == consumer[c] \in Scans

TypeInv ==
  /\ threadCount \in Nat \ {0}
  /\ scanNo \in Scans
  /\ closed \in BOOLEAN
  /\ results \in Seq(Scans)
  /\ consumer \in [Consumers -> 0 .. MaxDsScans + 1]
  /\ onBus \in Seq(Entries)
  /\ accepted \subseteq 1 .. scanNo
  /\ dsCompleted \in Nat

\* The scan under way has not been accepted yet.
FreshInv == scanner \in {"rpc", "dispatch"} => scanNo \notin accepted

\* The queue holds accepted tables in the order of their scans.
QueueInv ==
  /\ \A i, j \in DOMAIN results : i < j => results[i] < results[j]
  /\ \A i \in DOMAIN results : results[i] \in accepted
  /\ threadCount = 1 => results = <<>>

\* What a consumer holds is older than what waits, and no other one holds it.
HeldInv ==
  \A c \in Consumers : Holds(c) =>
    /\ consumer[c] \in accepted
    /\ \A i \in DOMAIN results : consumer[c] < results[i]
    /\ \A d \in Consumers : d # c => consumer[d] # consumer[c]

\* What is published was parsed, is older than what waits, and is held by nobody.
BusInv ==
  \A k \in DOMAIN onBus : IsTable(k) =>
    /\ onBus[k][2] \in accepted \ unreadable
    /\ \A i \in DOMAIN results : onBus[k][2] < results[i]
    /\ \A c \in Consumers : Holds(c) =>
         onBus[k][2] # consumer[c] /\ (threadCount <= 2 => onBus[k][2] < consumer[c])

\* No table is published twice, and one consumer keeps their order.
OnceInv ==
  \A i, j \in DOMAIN onBus : IsTable(i) /\ IsTable(j) /\ i < j =>
    onBus[i][2] # onBus[j][2] /\ (threadCount <= 2 => onBus[i][2] < onBus[j][2])

\* No accepted table that can be parsed is lost.
WhereInv ==
  \A n \in accepted \ unreadable :
    \/ \E i \in DOMAIN results : results[i] = n
    \/ \E c \in Consumers : consumer[c] = n
    \/ \E k \in DOMAIN onBus : onBus[k] = <<"table", n>>

\* The queue is closed when the scanner is past its last table, and consumers
\* end when it is closed and empty.
CloseInv ==
  /\ closed => threadCount > 1 /\ scanner \in {"drain", "ended"}
  /\ \A c \in Consumers : consumer[c] = Ended => closed /\ results = <<>>
  /\ scanner = "signal" => threadCount = 1

\* Completion is reported once, as the last step of the scanner, and like the
\* end of the destructor it comes after the end of the consumers.
DoneInv ==
  /\ dsCompleted <= 1
  /\ scanner # "ended" => dsCompleted = 0
  /\ dsCompleted = 1 \/ owner = "gone" => AllConsumersEnded

IInv == /\ TypeInv /\ FreshInv /\ QueueInv /\ HeldInv /\ BusInv /\ OnceInv
        /\ WhereInv /\ CloseInv /\ DoneInv

-----------------------------------------------------------------------------
(* Steps that move no table.                                                *)

\* Tables stay where they are; one of a scan that is not accepted yet may turn
\* out unreadable.
LEMMA TablesStay ==
  ASSUME IInv, UNCHANGED <<threadCount, results, consumer, onBus, accepted>>,
         accepted \ unreadable' = accepted \ unreadable
  PROVE  QueueInv' /\ HeldInv' /\ BusInv' /\ OnceInv' /\ WhereInv'
<1>1. Consumers' = Consumers
  BY DEF Consumers
<1>2. QueueInv'
  BY DEF IInv, QueueInv
<1>3. HeldInv'
  BY <1>1 DEF IInv, HeldInv, Holds
<1>4. BusInv'
  BY <1>1 DEF IInv, BusInv, IsTable, Holds
<1>5. OnceInv'
  BY DEF IInv, OnceInv, IsTable
<1>6. WhereInv'
  BY <1>1 DEF IInv, WhereInv
<1>7. QED
  BY <1>2, <1>3, <1>4, <1>5, <1>6

\* The RPC answers, fails or is interrupted.
LEMMA RpcStep == ASSUME IInv, Rpc PROVE IInv'
<1>1. /\ scanner = "rpc" /\ scanner' \in {"dispatch", "pause", "ended"}
      /\ UNCHANGED <<threadCount, owner, scanNo, results, closed, consumer, onBus, accepted,
                     dsCompleted>>
      /\ unreadable' = unreadable \/ unreadable' = unreadable \cup {scanNo}
  BY DEF Rpc, dsConfig
<1>2. QueueInv' /\ HeldInv' /\ BusInv' /\ OnceInv' /\ WhereInv'
  <2>1. accepted \ unreadable' = accepted \ unreadable
    BY <1>1 DEF IInv, FreshInv
  <2>2. QED
    BY <1>1, <2>1, TablesStay
<1>3. TypeInv' /\ FreshInv'
  BY <1>1 DEF IInv, TypeInv, FreshInv, Consumers
<1>4. CloseInv'
  BY <1>1 DEF IInv, CloseInv, Consumers, Ended
<1>5. DoneInv'
  BY <1>1 DEF IInv, DoneInv, AllConsumersEnded, Consumers, Ended
<1>6. QED
  BY <1>2, <1>3, <1>4, <1>5 DEF IInv

\* The end of a scan: only a one-shot reader closes the queue here, and the
\* next scan has a number of its own.
LEMMA PauseStep == ASSUME Bounds, IInv, Pause PROVE IInv'
<1>1. /\ scanner = "pause"
      /\ UNCHANGED <<threadCount, owner, results, consumer, onBus, accepted, dsCompleted,
                     unreadable>>
  BY DEF Pause, dsConfig
<1>2. ~closed /\ threadCount \in Nat \ {0} /\ scanNo \in Scans
  BY <1>1 DEF IInv, CloseInv, TypeInv
<1>3. QueueInv' /\ HeldInv' /\ BusInv' /\ OnceInv' /\ WhereInv'
  BY <1>1, TablesStay
<1>4. \A c \in Consumers : consumer[c] # Ended
  BY <1>2 DEF IInv, CloseInv
<1>5. /\ scanNo' \in Scans /\ scanNo <= scanNo'
      /\ scanner' \in {"rpc", "signal", "drain", "ended"}
      /\ scanner' = "rpc" => scanNo' = scanNo + 1
      /\ scanner' = "signal" => threadCount = 1
  BY <1>2 DEF Bounds, Pause, Scans
<1>6. closed' \in BOOLEAN /\ (closed' => threadCount > 1 /\ scanner' = "drain")
  <2>1. CASE scanner' = "drain" /\ threadCount # 1 /\ closed' = TRUE
    BY <1>2, <2>1
  <2>2. CASE closed' = closed
    BY <1>2, <2>2 DEF IInv, TypeInv
  <2>3. QED
    BY <2>1, <2>2 DEF Pause
<1>7. TypeInv'
  BY <1>1, <1>2, <1>5, <1>6 DEF IInv, TypeInv, Consumers, Scans
<1>8. FreshInv'
  BY <1>1, <1>2, <1>5 DEF IInv, TypeInv, FreshInv, Scans
<1>9. CloseInv'
  BY <1>1, <1>4, <1>5, <1>6 DEF CloseInv, Consumers, Ended
<1>10. DoneInv'
  BY <1>1, <1>5 DEF IInv, DoneInv, AllConsumersEnded, Consumers, Ended
<1>11. QED
  BY <1>3, <1>7, <1>8, <1>9, <1>10 DEF IInv

\* Completion is reported when the consumers have ended, or there are none.
LEMMA CompleteStep == ASSUME IInv, Complete PROVE IInv'
<1>1. /\ scanner = "signal" \/ (scanner = "drain" /\ AllConsumersEnded)
      /\ scanner' = "ended" /\ dsCompleted' = dsCompleted + 1
      /\ UNCHANGED <<threadCount, owner, scanNo, results, closed, consumer, onBus, accepted,
                     unreadable>>
  BY DEF Complete, dsConfig
<1>2. QueueInv' /\ HeldInv' /\ BusInv' /\ OnceInv' /\ WhereInv'
  BY <1>1, TablesStay
<1>3. TypeInv' /\ FreshInv'
  BY <1>1 DEF IInv, TypeInv, FreshInv, Consumers
<1>4. CloseInv'
  BY <1>1 DEF IInv, CloseInv, Consumers, Ended
<1>5. scanner = "signal" => Consumers = {}
  BY DEF IInv, CloseInv, Consumers
<1>6. AllConsumersEnded
  BY <1>1, <1>5 DEF AllConsumersEnded
<1>7. dsCompleted = 0
  BY <1>1 DEF IInv, DoneInv
<1>8. DoneInv'
  BY <1>1, <1>6, <1>7 DEF DoneInv, AllConsumersEnded, Consumers, Ended
<1>9. QED
  BY <1>2, <1>3, <1>4, <1>8 DEF IInv

\* The destructor asks for the stop.
LEMMA RequestStopStep == ASSUME IInv, RequestStop PROVE IInv'
<1>1. /\ owner' = "join"
      /\ UNCHANGED <<threadCount, scanner, scanNo, results, closed, consumer, onBus, accepted,
                     dsCompleted, unreadable>>
  BY DEF RequestStop, dsConfig
<1>2. QueueInv' /\ HeldInv' /\ BusInv' /\ OnceInv' /\ WhereInv'
  BY <1>1, TablesStay
<1>3. TypeInv' /\ FreshInv'
  BY <1>1 DEF IInv, TypeInv, FreshInv, Consumers
<1>4. CloseInv'
  BY <1>1 DEF IInv, CloseInv, Consumers, Ended
<1>5. DoneInv'
  BY <1>1 DEF IInv, DoneInv, AllConsumersEnded, Consumers, Ended
<1>6. QED
  BY <1>2, <1>3, <1>4, <1>5 DEF IInv

\* It closes the queue when the scanner has ended.
LEMMA JoinWorkerStep == ASSUME IInv, JoinWorker PROVE IInv'
<1>1. /\ scanner = "ended" /\ owner' = "drain" /\ closed' = (threadCount > 1)
      /\ UNCHANGED <<threadCount, scanner, scanNo, results, consumer, onBus, accepted,
                     dsCompleted, unreadable>>
  BY DEF JoinWorker, dsConfig
<1>2. QueueInv' /\ HeldInv' /\ BusInv' /\ OnceInv' /\ WhereInv'
  BY <1>1, TablesStay
<1>3. TypeInv' /\ FreshInv'
  BY <1>1 DEF IInv, TypeInv, FreshInv, Consumers
<1>4. CloseInv'
  BY <1>1 DEF IInv, CloseInv, Consumers, Ended
<1>5. DoneInv'
  BY <1>1 DEF IInv, DoneInv, AllConsumersEnded, Consumers, Ended
<1>6. QED
  BY <1>2, <1>3, <1>4, <1>5 DEF IInv

\* It returns when the consumers have ended.
LEMMA JoinConsumersStep == ASSUME IInv, JoinConsumers PROVE IInv'
<1>1. /\ AllConsumersEnded /\ owner' = "gone"
      /\ UNCHANGED <<threadCount, scanner, scanNo, results, closed, consumer, onBus, accepted,
                     dsCompleted, unreadable>>
  BY DEF JoinConsumers, dsConfig
<1>2. QueueInv' /\ HeldInv' /\ BusInv' /\ OnceInv' /\ WhereInv'
  BY <1>1, TablesStay
<1>3. TypeInv' /\ FreshInv'
  BY <1>1 DEF IInv, TypeInv, FreshInv, Consumers
<1>4. CloseInv'
  BY <1>1 DEF IInv, CloseInv, Consumers, Ended
<1>5. DoneInv'
  BY <1>1 DEF IInv, DoneInv, AllConsumersEnded, Consumers, Ended
<1>6. QED
  BY <1>2, <1>3, <1>4, <1>5 DEF IInv

-----------------------------------------------------------------------------
(* Steps that move a table.                                                 *)

\* Publishing adds one entry at the end.
LEMMA BusGrows ==
  ASSUME TypeInv, NEW e \in Entries, onBus' = Append(onBus, e)
  PROVE  /\ onBus' \in Seq(Entries)
         /\ DOMAIN onBus' = DOMAIN onBus \cup {Len(onBus) + 1}
         /\ \A k \in DOMAIN onBus : k \in Nat /\ k < Len(onBus) + 1 /\ onBus'[k] = onBus[k]
         /\ onBus'[Len(onBus) + 1] = e
  BY DEF TypeInv

\* A sweep entry is no table.
LEMMA SweepStep == ASSUME Bounds, IInv, Sweep PROVE IInv'
<1>1. /\ scanner = "sweep" /\ scanner' \in {"sweep", "pause"}
      /\ UNCHANGED <<threadCount, owner, scanNo, results, closed, consumer, accepted,
                     dsCompleted, unreadable>>
  BY DEF Sweep, dsConfig
<1>2. CASE onBus' = onBus
  <2>1. QueueInv' /\ HeldInv' /\ BusInv' /\ OnceInv' /\ WhereInv'
    BY <1>1, <1>2, TablesStay
  <2>2. TypeInv' /\ FreshInv'
    BY <1>1, <1>2 DEF IInv, TypeInv, FreshInv, Consumers
  <2>3. CloseInv'
    BY <1>1 DEF IInv, CloseInv, Consumers, Ended
  <2>4. DoneInv'
    BY <1>1 DEF IInv, DoneInv, AllConsumersEnded, Consumers, Ended
  <2>5. QED
    BY <2>1, <2>2, <2>3, <2>4 DEF IInv
<1>3. CASE onBus' = Append(onBus, <<"sweep", scanNo>>)
  <2>1. <<"sweep", scanNo>> \in Entries
    BY DEF IInv, TypeInv, Entries
  <2>2. /\ onBus' \in Seq(Entries)
        /\ DOMAIN onBus' = DOMAIN onBus \cup {Len(onBus) + 1}
        /\ \A k \in DOMAIN onBus : k \in Nat /\ k < Len(onBus) + 1 /\ onBus'[k] = onBus[k]
        /\ onBus'[Len(onBus) + 1] = <<"sweep", scanNo>>
    BY <1>3, <2>1, BusGrows DEF IInv
  <2>3. \A k \in DOMAIN onBus' : IsTable(k)' => k \in DOMAIN onBus /\ IsTable(k) /\ onBus'[k] = onBus[k]
    BY <2>2 DEF IsTable
  <2>4. TypeInv' /\ FreshInv'
    BY <1>1, <2>2 DEF IInv, TypeInv, FreshInv, Consumers
  <2>5. QueueInv' /\ HeldInv'
    BY <1>1 DEF IInv, QueueInv, HeldInv, Holds, Consumers
  <2>6. BusInv'
    BY <1>1, <2>3 DEF IInv, BusInv, Holds, Consumers
  <2>7. OnceInv'
    BY <1>1, <2>3 DEF IInv, OnceInv
  <2>8. WhereInv'
    BY <1>1, <2>2 DEF IInv, WhereInv, Consumers
  <2>9. CloseInv'
    BY <1>1 DEF IInv, CloseInv, Consumers, Ended
  <2>10. DoneInv'
    BY <1>1 DEF IInv, DoneInv, AllConsumersEnded, Consumers, Ended
  <2>11. QED
    BY <2>4, <2>5, <2>6, <2>7, <2>8, <2>9, <2>10 DEF IInv
<1>4. QED
  BY <1>2, <1>3 DEF Sweep

\* With one thread, an exception drops the table where it arrives.
LEMMA DropInline ==
  ASSUME Bounds, IInv, Dispatch, threadCount = 1, scanNo \in unreadable
  PROVE  IInv'
<1>1. /\ scanner = "dispatch" /\ scanner' = "pause"
      /\ accepted' = accepted \cup {scanNo}
      /\ UNCHANGED <<threadCount, owner, scanNo, results, closed, consumer, onBus, dsCompleted,
                     unreadable>>
  BY DEF Dispatch, Publish, dsConfig
<1>2. Consumers = {} /\ Consumers' = {} /\ results = <<>> /\ results' = <<>>
  BY <1>1 DEF Consumers, IInv, QueueInv
<1>3. scanNo \in Scans /\ accepted' \subseteq 1 .. scanNo
  BY <1>1 DEF IInv, TypeInv, Scans
<1>4. TypeInv'
  BY <1>1, <1>3 DEF IInv, TypeInv, Consumers
<1>5. FreshInv' /\ QueueInv' /\ HeldInv'
  BY <1>1, <1>2 DEF FreshInv, QueueInv, HeldInv
<1>6. BusInv'
  BY <1>1, <1>2 DEF IInv, BusInv, IsTable
<1>7. OnceInv'
  BY <1>1 DEF IInv, OnceInv, IsTable
<1>8. WhereInv'
  BY <1>1, <1>2 DEF IInv, WhereInv
<1>9. CloseInv' /\ DoneInv'
  BY <1>1, <1>2 DEF IInv, CloseInv, DoneInv, AllConsumersEnded
<1>10. QED
  BY <1>4, <1>5, <1>6, <1>7, <1>8, <1>9 DEF IInv

\* With one thread the table is published where it arrives: it is newer than
\* every accepted one.
LEMMA PublishInline ==
  ASSUME Bounds, IInv, Dispatch, threadCount = 1, scanNo \notin unreadable
  PROVE  IInv'
<1>1. /\ scanner = "dispatch" /\ scanner' = "sweep"
      /\ onBus' = Append(onBus, <<"table", scanNo>>)
      /\ accepted' = accepted \cup {scanNo}
      /\ UNCHANGED <<threadCount, owner, scanNo, results, closed, consumer, dsCompleted,
                     unreadable>>
  BY DEF Dispatch, Publish, dsConfig
<1>2. Consumers = {} /\ Consumers' = {} /\ results = <<>> /\ results' = <<>>
  BY <1>1 DEF Consumers, IInv, QueueInv
<1>3. scanNo \in Scans /\ scanNo \in Nat /\ <<"table", scanNo>> \in Entries
  BY DEF IInv, TypeInv, Entries, Scans
<1>4. /\ onBus' \in Seq(Entries)
      /\ DOMAIN onBus' = DOMAIN onBus \cup {Len(onBus) + 1}
      /\ \A k \in DOMAIN onBus : k \in Nat /\ k < Len(onBus) + 1 /\ onBus'[k] = onBus[k]
      /\ onBus'[Len(onBus) + 1] = <<"table", scanNo>>
  BY <1>1, <1>3, BusGrows DEF IInv
<1>5. \A n \in accepted : n \in Nat /\ n < scanNo
  BY <1>1 DEF IInv, TypeInv, FreshInv, Scans
<1>6. TypeInv'
  <2>1. accepted' \subseteq 1 .. scanNo
    BY <1>1, <1>3, <1>5 DEF IInv, TypeInv, Scans
  <2>2. QED
    BY <1>1, <1>4, <2>1 DEF IInv, TypeInv, Consumers
<1>7. FreshInv' /\ QueueInv' /\ HeldInv'
  BY <1>1, <1>2 DEF FreshInv, QueueInv, HeldInv
<1>8. BusInv'
  BY <1>1, <1>2, <1>4 DEF IInv, BusInv, IsTable
<1>9. OnceInv'
  <2>1. SUFFICES ASSUME NEW i \in DOMAIN onBus', NEW j \in DOMAIN onBus',
                        IsTable(i)', IsTable(j)', i < j
                 PROVE  onBus'[i][2] < onBus'[j][2] /\ onBus'[i][2] # onBus'[j][2]
    BY DEF OnceInv
  <2>2. i \in DOMAIN onBus /\ IsTable(i) /\ onBus'[i] = onBus[i]
    <3>1. i # Len(onBus) + 1
      BY <1>4, <2>1 DEF IInv, TypeInv
    <3>2. QED
      BY <1>4, <2>1, <3>1 DEF IsTable
  <2>3. CASE j = Len(onBus) + 1
    BY <1>4, <1>5, <2>2, <2>3 DEF IInv, BusInv
  <2>4. CASE j # Len(onBus) + 1
    <3>1. j \in DOMAIN onBus /\ IsTable(j) /\ onBus'[j] = onBus[j]
      BY <1>4, <2>1, <2>4 DEF IsTable
    <3>2. QED
      BY <2>1, <2>2, <3>1, threadCount <= 2 DEF IInv, OnceInv
  <2>5. QED
    BY <2>3, <2>4
<1>10. WhereInv'
  <2> SUFFICES ASSUME NEW n \in accepted', n \notin unreadable
               PROVE  \E k \in DOMAIN onBus' : onBus'[k] = <<"table", n>>
    BY <1>1, <1>2 DEF WhereInv
  <2>1. CASE n = scanNo
    BY <1>4, <2>1
  <2>2. CASE n \in accepted
    <3>1. WhereInv /\ DOMAIN results = {}
      BY <1>2 DEF IInv
    <3>2. PICK k \in DOMAIN onBus : onBus[k] = <<"table", n>>
      BY <1>2, <2>2, <3>1 DEF WhereInv
    <3> QED
      BY <1>4, <3>2
  <2> QED
    BY <1>1, <2>1, <2>2
<1>11. CloseInv'
  BY <1>1, <1>2 DEF IInv, CloseInv
<1>12. DoneInv'
  BY <1>1, <1>2 DEF IInv, DoneInv, AllConsumersEnded
<1>13. QED
  BY <1>6, <1>7, <1>8, <1>9, <1>10, <1>11, <1>12 DEF IInv

\* With more threads it is queued behind the older ones.  The queue is not
\* closed yet: that is done after the scanner's last table.
LEMMA QueueTable ==
  ASSUME Bounds, IInv, Dispatch, threadCount # 1
  PROVE  IInv'
<1>1. scanner = "dispatch" /\ ~closed
  BY DEF Dispatch, IInv, CloseInv
<1>2. threadCount \in Nat /\ threadCount > 1
  BY DEF IInv, TypeInv
<1>3. /\ scanner' = "sweep" /\ results' = Append(results, scanNo)
      /\ accepted' = accepted \cup {scanNo}
      /\ UNCHANGED <<threadCount, owner, scanNo, closed, consumer, onBus, dsCompleted,
                     unreadable>>
  BY <1>1 DEF Dispatch, dsConfig
<1>4. scanNo \in Scans /\ scanNo \in Nat /\ Consumers' = Consumers
  BY <1>3 DEF IInv, TypeInv, Scans, Consumers
<1>5. \A n \in accepted : n \in Nat /\ n < scanNo
  BY <1>1 DEF IInv, TypeInv, FreshInv, Scans
<1>6. /\ results' \in Seq(Scans)
      /\ DOMAIN results' = DOMAIN results \cup {Len(results) + 1}
      /\ \A i \in DOMAIN results : i \in Nat /\ i < Len(results) + 1 /\ results'[i] = results[i]
      /\ results'[Len(results) + 1] = scanNo
  BY <1>3, <1>4 DEF IInv, TypeInv
<1>7. TypeInv'
  <2>1. accepted' \subseteq 1 .. scanNo
    BY <1>3, <1>4, <1>5 DEF IInv, TypeInv, Scans
  <2>2. QED
    BY <1>3, <1>4, <1>6, <2>1 DEF IInv, TypeInv
<1>8. FreshInv'
  BY <1>3 DEF FreshInv
<1>9. QueueInv'
  <2>1. \A i \in DOMAIN results' : results'[i] \in accepted'
    BY <1>3, <1>6 DEF IInv, QueueInv
  <2>2. ASSUME NEW i \in DOMAIN results', NEW j \in DOMAIN results', i < j
        PROVE  results'[i] < results'[j]
    <3>1. i \in DOMAIN results /\ results'[i] = results[i]
      BY <1>6, <2>2 DEF IInv, TypeInv
    <3>2. CASE j = Len(results) + 1
      BY <1>5, <1>6, <3>1, <3>2 DEF IInv, QueueInv
    <3>3. CASE j # Len(results) + 1
      BY <1>6, <2>2, <3>1, <3>3 DEF IInv, QueueInv
    <3>4. QED
      BY <3>2, <3>3
  <2>3. QED
    BY <1>2, <1>3, <2>1, <2>2 DEF QueueInv
<1>10. HeldInv'
  <2>1. SUFFICES ASSUME NEW c \in Consumers, Holds(c)
                 PROVE  /\ consumer[c] \in accepted'
                        /\ \A i \in DOMAIN results' : consumer[c] < results'[i]
                        /\ \A d \in Consumers : d # c => consumer[d] # consumer[c]
    BY <1>3, <1>4 DEF HeldInv, Holds
  <2>2. /\ consumer[c] \in accepted
        /\ \A i \in DOMAIN results : consumer[c] < results[i]
        /\ \A d \in Consumers : d # c => consumer[d] # consumer[c]
    BY <2>1 DEF IInv, HeldInv
  <2>3. QED
    BY <1>3, <1>5, <1>6, <2>2
<1>11. BusInv'
  <2>1. SUFFICES ASSUME NEW k \in DOMAIN onBus, IsTable(k)
                 PROVE  /\ onBus[k][2] \in accepted' \ unreadable
                        /\ \A i \in DOMAIN results' : onBus[k][2] < results'[i]
                        /\ \A c \in Consumers : Holds(c) =>
                             onBus[k][2] # consumer[c] /\ (threadCount <= 2 => onBus[k][2] < consumer[c])
    BY <1>3, <1>4 DEF BusInv, IsTable, Holds
  <2>2. /\ onBus[k][2] \in accepted \ unreadable
        /\ \A i \in DOMAIN results : onBus[k][2] < results[i]
        /\ \A c \in Consumers : Holds(c) =>
             onBus[k][2] # consumer[c] /\ (threadCount <= 2 => onBus[k][2] < consumer[c])
    BY <2>1 DEF IInv, BusInv
  <2>3. QED
    BY <1>3, <1>5, <1>6, <2>2
<1>12. OnceInv'
  BY <1>3 DEF IInv, OnceInv, IsTable
<1>13. WhereInv'
  BY <1>3, <1>4, <1>6 DEF IInv, WhereInv
<1>14. CloseInv'
  BY <1>1, <1>3, <1>4 DEF IInv, CloseInv, Ended
<1>15. DoneInv'
  BY <1>1, <1>3, <1>4 DEF IInv, DoneInv, AllConsumersEnded, Ended
<1>16. QED
  BY <1>7, <1>8, <1>9, <1>10, <1>11, <1>12, <1>13, <1>14, <1>15 DEF IInv

\* A consumer takes the oldest table of the queue.
LEMMA PopTable ==
  ASSUME Bounds, IInv, NEW c \in Consumers, ConsumerPop(c), results # <<>>
  PROVE  IInv'
<1>1. /\ consumer[c] = 0 /\ consumer' = [consumer EXCEPT ![c] = Head(results)]
      /\ results' = Tail(results)
      /\ UNCHANGED <<threadCount, scanner, owner, scanNo, closed, onBus, accepted, dsCompleted,
                     unreadable>>
  BY DEF ConsumerPop, PopReturns, dsConfig
<1>2. /\ 1 \in DOMAIN results /\ Head(results) = results[1] /\ results[1] \in Scans
      /\ results' \in Seq(Scans)
      /\ \A i \in DOMAIN results' :
           i \in Nat /\ i + 1 \in DOMAIN results /\ 1 < i + 1 /\ results'[i] = results[i + 1]
      /\ \A i \in DOMAIN results : i # 1 => i - 1 \in DOMAIN results' /\ results'[i - 1] = results[i]
  BY <1>1 DEF IInv, TypeInv
<1>3. Consumers' = Consumers
  BY <1>1 DEF Consumers
<1>4. consumer \in [Consumers -> 0 .. MaxDsScans + 1] /\ results[1] \in 0 .. MaxDsScans + 1
  BY <1>2 DEF IInv, TypeInv, Scans, Bounds
<1>5. consumer'[c] = results[1] /\ \A d \in Consumers : d # c => consumer'[d] = consumer[d]
  BY <1>1, <1>2, <1>4
<1>6. TypeInv'
  BY <1>1, <1>2, <1>3, <1>4 DEF IInv, TypeInv
<1>7. FreshInv'
  BY <1>1 DEF IInv, FreshInv
<1>8. \A i \in DOMAIN results' : results[1] < results'[i]
  BY <1>2 DEF IInv, QueueInv
<1>9. QueueInv'
  <2>1. \A i, j \in DOMAIN results' : i < j => results'[i] < results'[j]
    BY <1>2 DEF IInv, QueueInv
  <2>2. \A i \in DOMAIN results' : results'[i] \in accepted'
    BY <1>1, <1>2 DEF IInv, QueueInv
  <2>3. threadCount # 1
    BY DEF IInv, QueueInv
  <2>4. QED
    BY <1>1, <2>1, <2>2, <2>3 DEF QueueInv
<1>10. \A d \in Consumers : Holds(d) /\ d # c => consumer[d] < results[1] /\ consumer[d] # results[1]
  BY <1>2 DEF IInv, HeldInv, Holds, Scans
<1>11. HeldInv'
  <2>1. SUFFICES ASSUME NEW d \in Consumers, Holds(d)'
                 PROVE  /\ consumer'[d] \in accepted
                        /\ \A i \in DOMAIN results' : consumer'[d] < results'[i]
                        /\ \A e \in Consumers : e # d => consumer'[e] # consumer'[d]
    BY <1>1, <1>3 DEF HeldInv
  <2>2. CASE d = c
    <3>1. results[1] \in accepted
      BY <1>2 DEF IInv, QueueInv
    <3>2. \A e \in Consumers : e # c => consumer[e] # results[1]
      BY <1>2, <1>10 DEF Holds
    <3>3. QED
      BY <1>5, <1>8, <2>2, <3>1, <3>2
  <2>3. CASE d # c
    <3>1. Holds(d) /\ consumer'[d] = consumer[d]
      BY <1>5, <2>1, <2>3 DEF Holds
    <3>2. consumer[d] # results[1]
      BY <1>10, <2>3, <3>1
    <3>3. QED
      BY <1>2, <1>5, <2>3, <3>1, <3>2 DEF IInv, HeldInv
  <2>4. QED
    BY <2>2, <2>3
<1>12. BusInv'
  <2>1. SUFFICES ASSUME NEW k \in DOMAIN onBus, IsTable(k)
                 PROVE  /\ onBus[k][2] \in accepted \ unreadable
                        /\ \A i \in DOMAIN results' : onBus[k][2] < results'[i]
                        /\ \A d \in Consumers : Holds(d)' =>
                             onBus[k][2] # consumer'[d] /\ (threadCount <= 2 => onBus[k][2] < consumer'[d])
    BY <1>1, <1>3 DEF BusInv, IsTable
  <2>2. /\ onBus[k][2] \in accepted \ unreadable
        /\ \A i \in DOMAIN results : onBus[k][2] < results[i]
        /\ \A d \in Consumers : Holds(d) =>
             onBus[k][2] # consumer[d] /\ (threadCount <= 2 => onBus[k][2] < consumer[d])
    BY <2>1 DEF IInv, BusInv
  <2>3. onBus[k][2] \in Nat
    <3>1. scanNo \in Nat /\ accepted \subseteq 1 .. scanNo
      BY DEF IInv, TypeInv, Scans
    <3>2. \A n \in accepted : n \in Nat
      BY <3>1
    <3>3. QED
      BY <2>2, <3>2
  <2>4. onBus[k][2] < results[1] /\ onBus[k][2] # results[1]
    BY <1>2, <2>2, <2>3 DEF Scans
  <2>5. QED
    BY <1>2, <1>5, <2>2, <2>4 DEF Holds
<1>13. OnceInv'
  BY <1>1 DEF IInv, OnceInv, IsTable
<1>14. WhereInv'
  <2>1. SUFFICES ASSUME NEW n \in accepted \ unreadable
                 PROVE  \/ \E i \in DOMAIN results' : results'[i] = n
                        \/ \E d \in Consumers : consumer'[d] = n
                        \/ \E k \in DOMAIN onBus : onBus[k] = <<"table", n>>
    BY <1>1, <1>3 DEF WhereInv
  <2>2. CASE \E i \in DOMAIN results : results[i] = n
    BY <1>2, <1>5, <2>2
  <2>3. CASE \E d \in Consumers : consumer[d] = n
    <3>1. n # 0
      BY DEF IInv, TypeInv
    <3>2. QED
      BY <1>1, <1>5, <2>3, <3>1
  <2>4. QED
    BY <2>2, <2>3 DEF IInv, WhereInv
<1>15. \A d \in Consumers : consumer[d] # Ended /\ consumer'[d] # Ended
  <2>1. \A d \in Consumers : consumer[d] # Ended
    BY DEF IInv, CloseInv
  <2>2. results[1] # Ended
    BY <1>2 DEF Scans, Ended, Bounds
  <2>3. QED
    BY <1>5, <2>1, <2>2
<1>16. CloseInv'
  BY <1>1, <1>3, <1>15 DEF IInv, CloseInv, Ended
<1>17. DoneInv'
  BY <1>1, <1>15 DEF IInv, DoneInv, AllConsumersEnded
<1>18. QED
  BY <1>6, <1>7, <1>9, <1>11, <1>12, <1>13, <1>14, <1>16, <1>17 DEF IInv

\* A consumer ends: the queue is closed and empty.
LEMMA PopEnd ==
  ASSUME Bounds, IInv, NEW c \in Consumers, ConsumerPop(c), results = <<>>
  PROVE  IInv'
<1>1. /\ closed /\ consumer[c] = 0 /\ consumer' = [consumer EXCEPT ![c] = Ended]
      /\ UNCHANGED <<threadCount, scanner, owner, scanNo, results, closed, onBus, accepted,
                     dsCompleted, unreadable>>
  BY DEF ConsumerPop, PopReturns, dsConfig
<1>2. Consumers' = Consumers
  BY <1>1 DEF Consumers
<1>3. consumer \in [Consumers -> 0 .. MaxDsScans + 1] /\ Ended \in 0 .. MaxDsScans + 1
      /\ Ended \notin Scans
  BY DEF IInv, TypeInv, Ended, Bounds, Scans
<1>4. consumer'[c] = Ended /\ \A d \in Consumers : d # c => consumer'[d] = consumer[d]
  BY <1>1, <1>3
<1>5. TypeInv' /\ FreshInv'
  BY <1>1, <1>2, <1>3 DEF IInv, TypeInv, FreshInv
<1>6. \A d \in Consumers : Holds(d)' => d # c /\ Holds(d) /\ consumer'[d] = consumer[d]
  BY <1>3, <1>4 DEF Holds
<1>7. QueueInv' /\ OnceInv'
  BY <1>1 DEF IInv, QueueInv, OnceInv, IsTable
<1>8. HeldInv'
  BY <1>1, <1>2, <1>3, <1>4, <1>6 DEF IInv, HeldInv, Holds
<1>9. BusInv'
  BY <1>1, <1>2, <1>6 DEF IInv, BusInv, IsTable
<1>10. WhereInv'
  <2>1. \A n \in accepted : n # 0
    BY DEF IInv, TypeInv
  <2>2. QED
    BY <1>1, <1>2, <1>4, <2>1 DEF IInv, WhereInv
<1>11. CloseInv'
  BY <1>1, <1>2, <1>4 DEF IInv, CloseInv, Ended
<1>12. DoneInv'
  BY <1>1, <1>2, <1>4 DEF IInv, DoneInv, AllConsumersEnded, Ended
<1>13. QED
  BY <1>5, <1>7, <1>8, <1>9, <1>10, <1>11, <1>12 DEF IInv

\* An exception drops what a consumer holds, and only that.
LEMMA DropHeld ==
  ASSUME Bounds, IInv, NEW c \in Consumers, ConsumerPublish(c), consumer[c] \in unreadable
  PROVE  IInv'
<1>1. /\ Holds(c) /\ consumer' = [consumer EXCEPT ![c] = 0]
      /\ UNCHANGED <<threadCount, scanner, owner, scanNo, results, closed, onBus, accepted,
                     dsCompleted, unreadable>>
  BY DEF ConsumerPublish, Publish, dsConfig, Holds, Scans
<1>2. Consumers' = Consumers
  BY <1>1 DEF Consumers
<1>3. consumer \in [Consumers -> 0 .. MaxDsScans + 1] /\ 0 \in 0 .. MaxDsScans + 1 /\ 0 \notin Scans
  BY DEF IInv, TypeInv, Bounds, Scans
<1>4. consumer'[c] = 0 /\ \A d \in Consumers : d # c => consumer'[d] = consumer[d]
  BY <1>1, <1>3
<1>5. TypeInv' /\ FreshInv'
  BY <1>1, <1>2, <1>3 DEF IInv, TypeInv, FreshInv
<1>6. \A d \in Consumers : Holds(d)' => d # c /\ Holds(d) /\ consumer'[d] = consumer[d]
  BY <1>3, <1>4 DEF Holds
<1>7. QueueInv' /\ OnceInv'
  BY <1>1 DEF IInv, QueueInv, OnceInv, IsTable
<1>8. HeldInv'
  BY <1>1, <1>2, <1>3, <1>4, <1>6 DEF IInv, HeldInv, Holds
<1>9. BusInv'
  BY <1>1, <1>2, <1>6 DEF IInv, BusInv, IsTable
<1>10. WhereInv'
  <2>1. SUFFICES ASSUME NEW n \in accepted \ unreadable
                 PROVE  \/ \E i \in DOMAIN results : results[i] = n
                        \/ \E d \in Consumers : consumer'[d] = n
                        \/ \E k \in DOMAIN onBus : onBus[k] = <<"table", n>>
    BY <1>1, <1>2 DEF WhereInv
  <2>2. CASE \E d \in Consumers : consumer[d] = n
    BY <1>4, <2>1, <2>2
  <2>3. QED
    BY <2>2 DEF IInv, WhereInv
<1>11. consumer[c] # Ended /\ 0 # Ended
  BY <1>1 DEF Holds, Scans, Ended, Bounds
<1>12. CloseInv'
  BY <1>1, <1>2, <1>4, <1>11 DEF IInv, CloseInv, Ended
<1>13. DoneInv'
  BY <1>1, <1>2, <1>4, <1>11 DEF IInv, DoneInv, AllConsumersEnded, Ended
<1>14. QED
  BY <1>5, <1>7, <1>8, <1>9, <1>10, <1>12, <1>13 DEF IInv

\* A consumer publishes what it holds: nothing on the bus is the same table, and
\* with one consumer everything there is older.
LEMMA PublishHeld ==
  ASSUME Bounds, IInv, NEW c \in Consumers, ConsumerPublish(c), consumer[c] \notin unreadable
  PROVE  IInv'
<1>1. /\ Holds(c) /\ consumer' = [consumer EXCEPT ![c] = 0]
      /\ onBus' = Append(onBus, <<"table", consumer[c]>>)
      /\ UNCHANGED <<threadCount, scanner, owner, scanNo, results, closed, accepted, dsCompleted,
                     unreadable>>
  BY DEF ConsumerPublish, Publish, dsConfig, Holds, Scans
<1>2. Consumers' = Consumers
  BY <1>1 DEF Consumers
<1>3. consumer \in [Consumers -> 0 .. MaxDsScans + 1] /\ 0 \in 0 .. MaxDsScans + 1 /\ 0 \notin Scans
  BY DEF IInv, TypeInv, Bounds, Scans
<1>4. consumer'[c] = 0 /\ \A d \in Consumers : d # c => consumer'[d] = consumer[d]
  BY <1>1, <1>3
<1>5. <<"table", consumer[c]>> \in Entries
  BY <1>1 DEF Holds, Entries
<1>6. /\ onBus' \in Seq(Entries)
      /\ DOMAIN onBus' = DOMAIN onBus \cup {Len(onBus) + 1}
      /\ \A k \in DOMAIN onBus : k \in Nat /\ k < Len(onBus) + 1 /\ onBus'[k] = onBus[k]
      /\ onBus'[Len(onBus) + 1] = <<"table", consumer[c]>>
  BY <1>1, <1>5, BusGrows DEF IInv
<1>7. TypeInv' /\ FreshInv'
  BY <1>1, <1>2, <1>3, <1>6 DEF IInv, TypeInv, FreshInv
<1>8. \A d \in Consumers : Holds(d)' => d # c /\ Holds(d) /\ consumer'[d] = consumer[d]
  BY <1>3, <1>4 DEF Holds
<1>9. QueueInv'
  BY <1>1 DEF IInv, QueueInv
<1>10. HeldInv'
  BY <1>1, <1>2, <1>3, <1>4, <1>8 DEF IInv, HeldInv, Holds
<1>11. threadCount <= 2 => \A d \in Consumers : d = c
  BY DEF IInv, TypeInv, Consumers
<1>12. BusInv'
  <2>1. SUFFICES ASSUME NEW k \in DOMAIN onBus', IsTable(k)'
                 PROVE  /\ onBus'[k][2] \in accepted \ unreadable
                        /\ \A i \in DOMAIN results : onBus'[k][2] < results[i]
                        /\ \A d \in Consumers : Holds(d)' =>
                             onBus'[k][2] # consumer'[d] /\ (threadCount <= 2 => onBus'[k][2] < consumer'[d])
    BY <1>1, <1>2 DEF BusInv
  <2>2. CASE k = Len(onBus) + 1
    <3>1. onBus'[k][2] = consumer[c]
      BY <1>6, <2>2
    <3>2. QED
      BY <1>1, <1>8, <1>11, <3>1 DEF IInv, HeldInv
  <2>3. CASE k # Len(onBus) + 1
    <3>1. k \in DOMAIN onBus /\ IsTable(k) /\ onBus'[k] = onBus[k]
      BY <1>6, <2>1, <2>3 DEF IsTable
    <3>2. QED
      BY <1>8, <3>1 DEF IInv, BusInv
  <2>4. QED
    BY <2>2, <2>3
<1>13. OnceInv'
  <2>1. SUFFICES ASSUME NEW i \in DOMAIN onBus', NEW j \in DOMAIN onBus',
                        IsTable(i)', IsTable(j)', i < j
                 PROVE  onBus'[i][2] # onBus'[j][2] /\ (threadCount <= 2 => onBus'[i][2] < onBus'[j][2])
    BY <1>1 DEF OnceInv
  <2>2. i \in DOMAIN onBus /\ IsTable(i) /\ onBus'[i] = onBus[i]
    <3>1. i # Len(onBus) + 1
      BY <1>6, <2>1 DEF IInv, TypeInv
    <3>2. QED
      BY <1>6, <2>1, <3>1 DEF IsTable
  <2>3. CASE j = Len(onBus) + 1
    <3>1. onBus'[j][2] = consumer[c]
      BY <1>6, <2>3
    <3>2. QED
      BY <1>1, <2>2, <3>1 DEF IInv, BusInv
  <2>4. CASE j # Len(onBus) + 1
    <3>1. j \in DOMAIN onBus /\ IsTable(j) /\ onBus'[j] = onBus[j]
      BY <1>6, <2>1, <2>4 DEF IsTable
    <3>2. QED
      BY <2>1, <2>2, <3>1 DEF IInv, OnceInv
  <2>5. QED
    BY <2>3, <2>4
<1>14. WhereInv'
  <2>1. SUFFICES ASSUME NEW n \in accepted \ unreadable
                 PROVE  \/ \E i \in DOMAIN results : results[i] = n
                        \/ \E d \in Consumers : consumer'[d] = n
                        \/ \E k \in DOMAIN onBus' : onBus'[k] = <<"table", n>>
    BY <1>1, <1>2 DEF WhereInv
  <2>2. CASE \E d \in Consumers : consumer[d] = n
    BY <1>4, <1>6, <2>2
  <2>3. CASE \E k \in DOMAIN onBus : onBus[k] = <<"table", n>>
    BY <1>6, <2>3
  <2>4. QED
    BY <2>2, <2>3 DEF IInv, WhereInv
<1>15. consumer[c] # Ended /\ 0 # Ended
  BY <1>1 DEF Holds, Scans, Ended, Bounds
<1>16. CloseInv'
  BY <1>1, <1>2, <1>4, <1>15 DEF IInv, CloseInv, Ended
<1>17. DoneInv'
  BY <1>1, <1>2, <1>4, <1>15 DEF IInv, DoneInv, AllConsumersEnded, Ended
<1>18. QED
  BY <1>7, <1>9, <1>10, <1>12, <1>13, <1>14, <1>16, <1>17 DEF IInv

-----------------------------------------------------------------------------
(* The theorem.                                                             *)

\* The reader is constructed.
LEMMA InitIInv == ASSUME Bounds, DirectoryInit PROVE IInv
<1>1. TypeInv
  <2>1. 0 \in 0 .. MaxDsScans + 1 /\ 1 \in Scans
    BY DEF Bounds, Scans
  <2>2. threadCount \in Nat \ {0}
    BY DEF Bounds, DirectoryInit
  <2>3. consumer \in [Consumers -> 0 .. MaxDsScans + 1]
    BY <2>1 DEF DirectoryInit
  <2>4. results \in Seq(Scans) /\ onBus \in Seq(Entries)
    BY DEF DirectoryInit
  <2>5. QED
    BY <2>1, <2>2, <2>3, <2>4 DEF DirectoryInit, TypeInv
<1>2. \A c \in Consumers : consumer[c] = 0 /\ consumer[c] # Ended /\ ~Holds(c)
  BY DEF DirectoryInit, Bounds, Ended, Holds, Scans
<1>3. FreshInv /\ QueueInv /\ BusInv /\ OnceInv /\ WhereInv
  BY DEF DirectoryInit, FreshInv, QueueInv, BusInv, OnceInv, WhereInv
<1>4. HeldInv /\ CloseInv /\ DoneInv
  BY <1>2 DEF DirectoryInit, HeldInv, CloseInv, DoneInv
<1>5. QED
  BY <1>1, <1>3, <1>4 DEF IInv

\* Every step of the scanner, the consumers and the destructor keeps the
\* invariant.
LEMMA NextIInv == ASSUME Bounds, IInv, [DirectoryNext]_dsVars PROVE IInv'
<1>1. CASE Rpc
  BY <1>1, RpcStep
<1>2. CASE Dispatch
  BY <1>2, DropInline, PublishInline, QueueTable
<1>3. CASE Sweep
  BY <1>3, SweepStep
<1>4. CASE Pause
  BY <1>4, PauseStep
<1>5. CASE Complete
  BY <1>5, CompleteStep
<1>6. CASE RequestStop
  BY <1>6, RequestStopStep
<1>7. CASE JoinWorker
  BY <1>7, JoinWorkerStep
<1>8. CASE JoinConsumers
  BY <1>8, JoinConsumersStep
<1>9. ASSUME NEW c \in Consumers, ConsumerPop(c) PROVE IInv'
  BY <1>9, PopTable, PopEnd
<1>10. ASSUME NEW c \in Consumers, ConsumerPublish(c) PROVE IInv'
  BY <1>10, DropHeld, PublishHeld
<1>11. CASE UNCHANGED dsVars
  <2>1. QueueInv' /\ HeldInv' /\ BusInv' /\ OnceInv' /\ WhereInv'
    BY <1>11, TablesStay DEF dsVars
  <2>2. TypeInv' /\ FreshInv'
    BY <1>11 DEF dsVars, IInv, TypeInv, FreshInv, Consumers
  <2>3. CloseInv' /\ DoneInv'
    BY <1>11 DEF dsVars, IInv, CloseInv, DoneInv, AllConsumersEnded, Consumers, Ended
  <2>4. QED
    BY <2>1, <2>2, <2>3 DEF IInv
<1>12. QED
  BY <1>1, <1>2, <1>3, <1>4, <1>5, <1>6, <1>7, <1>8, <1>9, <1>10, <1>11 DEF DirectoryNext

\* When the consumers have ended, no table is held or waits.
LEMMA IInvPublished == ASSUME Bounds, IInv PROVE TablesPublished
<1>1. ASSUME AllConsumersEnded, NEW n \in accepted \ unreadable
      PROVE  \E k \in DOMAIN onBus : onBus[k] = <<"table", n>>
  <2>1. n \in Scans
    BY <1>1 DEF IInv, TypeInv, Scans, Bounds
  <2>2. \A c \in Consumers : consumer[c] # n
    BY <1>1, <2>1 DEF AllConsumersEnded, Ended, Scans, Bounds
  <2>3. results = <<>>
    <3>1. CASE threadCount = 1
      BY <3>1 DEF IInv, QueueInv
    <3>2. CASE threadCount # 1
      <4>1. 1 \in Consumers
        BY <3>2 DEF IInv, TypeInv, Consumers
      <4>2. QED
        BY <1>1, <4>1 DEF IInv, CloseInv, AllConsumersEnded
    <3>3. QED
      BY <3>1, <3>2
  <2>4. QED
    BY <1>1, <2>2, <2>3 DEF IInv, WhereInv
<1>2. dsCompleted = 1 \/ owner = "gone" =>
        \A n \in accepted \ unreadable : Position(<<"table", n>>) # {}
  BY <1>1 DEF IInv, DoneInv, Position
<1>3. \A n \in unreadable : Position(<<"table", n>>) = {}
  BY DEF IInv, BusInv, IsTable, Position
<1>4. dsCompleted <= 1
  BY DEF IInv, DoneInv
<1>5. QED
  BY <1>2, <1>3, <1>4 DEF IInv, OnceInv, IsTable, TablesPublished

\* The EPICS DS reader: when completion is reported or the destructor has
\* returned, every table dispatch_fn_ took and parseNTTable() could parse is on
\* the bus; none is there twice; with at most one consumer they are there in the
\* order of their scans; and completion is reported at most once.  For any thread
\* count, queue depth, PV list and number of scans, failed RPCs and tables that
\* cannot be parsed, and for a stop at any moment.
THEOREM TablesArePublished ==
  ASSUME Bounds
  PROVE  DirectorySpec => []TablesPublished
<1>1. DirectoryInit => IInv
  BY InitIInv
<1>2. IInv /\ [DirectoryNext]_dsVars => IInv'
  BY NextIInv
<1>3. IInv => TablesPublished
  BY IInvPublished
<1>4. QED
  BY <1>1, <1>2, <1>3, PTL DEF DirectorySpec

-----------------------------------------------------------------------------
(* ArchiverReader                                                          *)

\* No element of the sequence comes twice.
Unrepeated(s) == \A i, j \in DOMAIN s : s[i] = s[j] => i = j

\* The readers whose delivery is exact: no PV is configured twice, and a tail
\* reader has one fetch thread, because the watermark that drops the boundary
\* sample belongs to a thread and not to the reader.
ExactReader ==
  /\ Unrepeated(PVList)
  /\ \A c \in ArchiverConfigs : c.mode = "tail" => c.threads = 1

\* The control points of runWorker(), and those between publishing a window and
\* going to sleep.
Points == {"top", "populate", "signal", "test", "park", "blocked", "window", "loop", "fetch",
           "sleep", "exit", "done"}
Within == {"signal", "test", "park", "blocked", "window", "loop", "fetch", "sleep"}

\* The times of the sequence come in order, each once.
Ascending(s) == \A i, j \in DOMAIN s : i < j => s[i] < s[j]

\* Thread w has a stream of p open; what it holds back of it and what is to come.
Open(w, p) == fpc[w] = "fetch" /\ stream[w].pv = p
Held(w)    == ToSet(stream[w].chunk) \cup ToSet(stream[w].pending)
Rest(w)    == ToSet(stream[w].rest)

ReaderTypes ==
  /\ conf \in ArchiverConfigs
  /\ fetching \in BOOLEAN
  /\ now \in Int /\ prevEnd \in Int
  /\ pvQueue \in Seq(PVs)
  /\ cycle.from \in Int /\ cycle.to \in Int
  /\ due \subseteq Int
  /\ fpc \in [Threads -> Points]
  /\ window \in [Threads -> [from : Int, to : Int]]
  /\ stream \in [Threads -> [pv : PVs, rest : Seq(Int), chunk : Seq(Int), pending : Seq(Int)]]
  /\ mark \in [Threads -> [PVs -> Int]]
  /\ completions \in Nat
  /\ published \in [PVs -> Seq(Int)]
  /\ broken \in [PVs -> SUBSET Int]

\* A PV is in the queue once, or has one open stream, or neither.
PlaceInv ==
  /\ Unrepeated(pvQueue)
  /\ \A w \in Threads, p \in ToSet(pvQueue) : ~Open(w, p)
  /\ \A w, v \in Threads, p \in PVs : Open(w, p) /\ Open(v, p) => w = v

\* A historical read: every thread has the whole range, a thread ends only when
\* the queue is empty, and nothing of a queued PV has been read.
RangeInv ==
  ~TailMode =>
    /\ \A w \in Threads : /\ fpc[w] \in {"top", "loop", "fetch", "exit", "done"}
                          /\ window[w] = [from |-> HistoricalFrom, to |-> HistoricalTo]
                          /\ fpc[w] \in {"exit", "done"} => ~fetching \/ pvQueue = <<>>
    /\ due = HistoricalFrom .. HistoricalTo
    /\ \A p \in ToSet(pvQueue) : published[p] = <<>> /\ \A w \in Threads : mark[w][p] = -1
    /\ \A w \in Threads : fpc[w] = "fetch" => \A x \in Rest(w) : mark[w][stream[w].pv] < x

\* A tail read: the window under way ends at the clock the coordinator read and
\* the next one starts where it ended, or before; the watermark of a PV is the
\* latest sample read of it, and nothing later has been pushed.
CycleInv ==
  TailMode =>
    /\ Threads = {0}
    /\ fpc[0] \in {"exit", "done"} => ~fetching
    /\ fpc[0] \in {"top", "populate", "sleep"} /\ fetching => pvQueue = <<>>
    /\ fpc[0] \in {"loop", "fetch"} => window[0] = [from |-> cycle.from, to |-> cycle.to]
    /\ fpc[0] \in Within \cup {"populate"} => cycle.from .. cycle.to \subseteq due /\ now = cycle.to
    /\ fpc[0] \in Within => prevEnd = cycle.to /\ cycle.to >= 0
    /\ fpc[0] = "top" /\ fetching =>
         \/ prevEnd = cycle.to /\ cycle.to >= 0 /\ now >= cycle.to + Poll
         \/ prevEnd = -1 /\ due = {} /\ now = Poll /\ \A p \in PVs : mark[0][p] = -1
    /\ fpc[0] = "populate" => now >= 0
    /\ cycle.to >= 0
    /\ \A t \in due : t <= cycle.to
    /\ \A p \in PVs : mark[0][p] <= cycle.to /\ (mark[0][p] = -1 \/ mark[0][p] \in due)
    /\ \A p \in PVs : \A x \in ToSet(published[p]) : x <= mark[0][p]

\* An open stream: what has been pushed of its PV comes before what is held, the
\* watermark is beyond neither, and everything in it is due.
StreamInv ==
  \A w \in Threads : fpc[w] = "fetch" =>
    /\ stream[w].chunk = <<>> \/ stream[w].pending = <<>>
    /\ Ascending(stream[w].chunk) /\ Ascending(stream[w].pending) /\ Ascending(stream[w].rest)
    /\ \A x \in ToSet(published[stream[w].pv]) \cup Held(w) : x <= mark[w][stream[w].pv]
    /\ \A x \in ToSet(published[stream[w].pv]), y \in Held(w) : x < y
    /\ Held(w) \cup Rest(w) \subseteq due
    /\ conf.perBatch = 0 => stream[w].pending = <<>>
    /\ conf.perBatch # 0 => stream[w].chunk = <<>>

\* What has been pushed is in order, each sample once, and was asked for.
OutInv ==
  \A p \in PVs : Ascending(published[p]) /\ ToSet(published[p]) \subseteq due

\* Sample t of p will be asked for when p is taken from the queue.
Waits(p, t) ==
  IF TailMode THEN (p \in ToSet(pvQueue) \/ fpc[0] = "populate") /\ t \in cycle.from .. cycle.to
  ELSE p \in ToSet(pvQueue)

\* No sample that is due is forgotten: it has been pushed or its stream broke, or
\* it is in an open stream, or its PV waits for its turn.
CoverInv ==
  fetching => \A p \in PVs, t \in due :
    \/ t \in broken[p] \cup ToSet(published[p])
    \/ \E w \in Threads : Open(w, p) /\ t \in Held(w) \cup Rest(w)
    \/ Waits(p, t)

\* The watermark passes no sample: what a tail window drops as a duplicate has
\* been delivered, or is held by the open stream.
PassedInv ==
  fetching /\ TailMode => \A p \in PVs, t \in due :
    t <= mark[0][p] => \/ t \in broken[p] \cup ToSet(published[p])
                       \/ Open(0, p) /\ t \in Held(0)

\* Completion is reported once, after the last thread has pushed all it had.
ReportInv ==
  /\ completions <= 1
  /\ completions > 0 => /\ ~TailMode
                        /\ \A w \in Threads : fpc[w] = "done"
                        /\ \A p \in PVs : due \ broken[p] \subseteq ToSet(published[p])

\* The inductive invariant.
ReaderInv == /\ ReaderTypes /\ PlaceInv /\ RangeInv /\ CycleInv /\ StreamInv /\ OutInv
             /\ CoverInv /\ PassedInv /\ ReportInv

-----------------------------------------------------------------------------
(* Sequences of sample times. *)

\* An empty sequence has no element.
LEMMA NoElement == ToSet(<<>>) = {} /\ Ascending(<<>>)
BY DEF ToSet, Ascending

\* The elements of a concatenation.
LEMMA Concatenated ==
  ASSUME NEW s \in Seq(Int), NEW u \in Seq(Int)
  PROVE  /\ s \o u \in Seq(Int) /\ ToSet(s \o u) = ToSet(s) \cup ToSet(u)
<1>1. /\ s \o u \in Seq(Int) /\ DOMAIN (s \o u) = 1 .. Len(s) + Len(u)
      /\ Len(s) \in Nat /\ Len(u) \in Nat /\ DOMAIN s = 1 .. Len(s) /\ DOMAIN u = 1 .. Len(u)
  OBVIOUS
<1>2. \A i \in DOMAIN s : i \in DOMAIN (s \o u) /\ (s \o u)[i] = s[i]
  BY <1>1
<1>3. \A i \in DOMAIN u : i + Len(s) \in DOMAIN (s \o u) /\ (s \o u)[i + Len(s)] = u[i]
  BY <1>1
<1>4. ASSUME NEW i \in DOMAIN (s \o u)
      PROVE  (i \in DOMAIN s /\ (s \o u)[i] = s[i])
               \/ (i - Len(s) \in DOMAIN u /\ (s \o u)[i] = u[i - Len(s)])
  BY <1>1
<1>5. \A x \in ToSet(s) : x \in ToSet(s \o u)
  BY <1>2 DEF ToSet
<1>6. \A x \in ToSet(u) : x \in ToSet(s \o u)
  BY <1>3 DEF ToSet
<1>7. ASSUME NEW x \in ToSet(s \o u) PROVE x \in ToSet(s) \/ x \in ToSet(u)
  <2>1. PICK i \in DOMAIN (s \o u) : x = (s \o u)[i]
    BY DEF ToSet
  <2> QED
    BY <1>4, <2>1 DEF ToSet
<1> QED
  BY <1>1, <1>5, <1>6, <1>7

\* Nothing added, before or after.
LEMMA WithNothing == ASSUME NEW s \in Seq(Int) PROVE s \o <<>> = s /\ <<>> \o s = s
OBVIOUS

\* Later times after earlier ones.
LEMMA AscendingOn ==
  ASSUME NEW s \in Seq(Int), NEW u \in Seq(Int), Ascending(s), Ascending(u),
         \A x \in ToSet(s), y \in ToSet(u) : x < y
  PROVE  Ascending(s \o u)
<1>1. /\ DOMAIN (s \o u) = 1 .. Len(s) + Len(u)
      /\ Len(s) \in Nat /\ Len(u) \in Nat /\ DOMAIN s = 1 .. Len(s) /\ DOMAIN u = 1 .. Len(u)
  OBVIOUS
<1>2. ASSUME NEW i \in DOMAIN (s \o u)
      PROVE  IF i <= Len(s) THEN i \in DOMAIN s /\ (s \o u)[i] = s[i]
             ELSE i - Len(s) \in DOMAIN u /\ (s \o u)[i] = u[i - Len(s)]
  BY <1>1
<1>3. ASSUME NEW i \in DOMAIN (s \o u), NEW j \in DOMAIN (s \o u), i < j
      PROVE  (s \o u)[i] < (s \o u)[j]
  <2>0. i \in Nat /\ j \in Nat
    BY <1>1
  <2>1. CASE j <= Len(s)
    <3>1. i <= Len(s)
      BY <1>1, <1>3, <2>0, <2>1
    <3> QED
      BY <1>2, <1>3, <2>1, <3>1 DEF Ascending
  <2>2. CASE i <= Len(s) /\ ~(j <= Len(s))
    BY <1>2, <2>2 DEF ToSet
  <2>3. CASE ~(i <= Len(s))
    <3>1. ~(j <= Len(s)) /\ i - Len(s) < j - Len(s)
      BY <1>1, <1>3, <2>0, <2>3
    <3> QED
      BY <1>2, <2>3, <3>1 DEF Ascending
  <2> QED
    BY <2>1, <2>2, <2>3
<1> QED
  BY <1>3 DEF Ascending

\* One more time.
LEMMA Appended ==
  ASSUME NEW s \in Seq(Int), NEW t \in Int
  PROVE  /\ Append(s, t) = s \o <<t>> /\ <<t>> \in Seq(Int)
         /\ ToSet(<<t>>) = {t} /\ Ascending(<<t>>)
         /\ Append(s, t) \in Seq(Int) /\ ToSet(Append(s, t)) = ToSet(s) \cup {t}
<1>1. Append(s, t) = s \o <<t>> /\ <<t>> \in Seq(Int)
  OBVIOUS
<1>2. DOMAIN <<t>> = {1} /\ <<t>>[1] = t
  OBVIOUS
<1>3. ToSet(<<t>>) = {t}
  BY <1>2 DEF ToSet
<1>4. Ascending(<<t>>)
  BY <1>2 DEF Ascending
<1> QED
  BY <1>1, <1>3, <1>4, Concatenated

\* The first time and the others.
LEMMA HeadAndTail ==
  ASSUME NEW s \in Seq(Int), s # <<>>
  PROVE  /\ Head(s) \in Int /\ Tail(s) \in Seq(Int)
         /\ ToSet(s) = {Head(s)} \cup ToSet(Tail(s))
         /\ Ascending(s) => Ascending(Tail(s)) /\ \A x \in ToSet(Tail(s)) : Head(s) < x
<1>1. /\ Head(s) = s[1] /\ Head(s) \in Int /\ Tail(s) \in Seq(Int) /\ 1 \in DOMAIN s
      /\ Len(s) \in Nat /\ Len(Tail(s)) = Len(s) - 1
      /\ DOMAIN s = 1 .. Len(s) /\ DOMAIN Tail(s) = 1 .. Len(s) - 1
  OBVIOUS
<1>2. \A i \in DOMAIN Tail(s) : i + 1 \in DOMAIN s /\ Tail(s)[i] = s[i + 1] /\ 1 < i + 1
  BY <1>1
<1>3. \A i \in DOMAIN s : i # 1 => i - 1 \in DOMAIN Tail(s) /\ Tail(s)[i - 1] = s[i]
  BY <1>1
<1>4. ToSet(s) = {Head(s)} \cup ToSet(Tail(s))
  <2>1. \A x \in ToSet(Tail(s)) : x \in ToSet(s)
    BY <1>2 DEF ToSet
  <2>2. Head(s) \in ToSet(s)
    BY <1>1 DEF ToSet
  <2>3. ASSUME NEW x \in ToSet(s), x # Head(s) PROVE x \in ToSet(Tail(s))
    <3>1. PICK i \in DOMAIN s : x = s[i]
      BY DEF ToSet
    <3>2. i # 1
      BY <1>1, <2>3, <3>1
    <3> QED
      BY <1>3, <3>1, <3>2 DEF ToSet
  <2> QED
    BY <2>1, <2>2, <2>3
<1>5. ASSUME Ascending(s) PROVE Ascending(Tail(s)) /\ \A x \in ToSet(Tail(s)) : Head(s) < x
  <2>1. ASSUME NEW i \in DOMAIN Tail(s), NEW j \in DOMAIN Tail(s), i < j PROVE Tail(s)[i] < Tail(s)[j]
    <3>1. i + 1 \in DOMAIN s /\ j + 1 \in DOMAIN s /\ i + 1 < j + 1
      BY <1>1, <2>1
    <3> QED
      BY <1>2, <1>5, <3>1 DEF Ascending
  <2>2. ASSUME NEW i \in DOMAIN Tail(s) PROVE Head(s) < Tail(s)[i]
    BY <1>1, <1>2, <1>5 DEF Ascending
  <2> QED
    BY <2>1, <2>2 DEF Ascending, ToSet
<1> QED
  BY <1>1, <1>4, <1>5

\* The archiver's answer has each tick of the window once, in order.
LEMMA SamplesAre ==
  ASSUME NEW from \in Int, NEW to \in Int
  PROVE  /\ Samples(from, to) \in Seq(Int) /\ Ascending(Samples(from, to))
         /\ ToSet(Samples(from, to)) = from .. to
<1>1. DOMAIN Samples(from, to) = 1 .. to - from + 1
  BY DEF Samples
<1>2. \A k \in 1 .. to - from + 1 : Samples(from, to)[k] = from + k - 1
  BY DEF Samples
<1>3. Samples(from, to) \in Seq(Int)
  <2>1. CASE to - from + 1 \in Nat
    BY <2>1 DEF Samples
  <2>2. CASE to - from + 1 \notin Nat
    <3>1. 1 .. to - from + 1 = 1 .. 0
      BY <2>2
    <3>2. Samples(from, to) = [k \in 1 .. 0 |-> from + k - 1]
      BY <3>1 DEF Samples
    <3> QED
      BY <3>2
  <2> QED
    BY <2>1, <2>2
<1>4. Ascending(Samples(from, to))
  BY <1>1, <1>2 DEF Ascending
<1>5. \A t \in from .. to : t - from + 1 \in 1 .. to - from + 1 /\ from + (t - from + 1) - 1 = t
  OBVIOUS
<1>6. \A k \in 1 .. to - from + 1 : from + k - 1 \in from .. to
  OBVIOUS
<1>7. \A t \in from .. to : t \in ToSet(Samples(from, to))
  BY <1>1, <1>2, <1>5 DEF ToSet
<1>8. \A t \in ToSet(Samples(from, to)) : t \in from .. to
  BY <1>1, <1>2, <1>6 DEF ToSet
<1> QED
  BY <1>3, <1>4, <1>7, <1>8

-----------------------------------------------------------------------------
(* Steps that leave the streams alone. *)

\* What the configuration promises.
LEMMA ConfFacts ==
  ASSUME conf \in ArchiverConfigs
  PROVE  /\ conf.threads \in Nat \ {0} /\ 0 \in Threads /\ Threads \subseteq Nat
         /\ conf.lookback \in 1 .. Poll /\ Poll \in Nat \ {0} /\ conf.perBatch \in Nat
         /\ MaxDelay \in Nat
BY ArchiverAssumption DEF Threads

\* The fields of a stream.
Streams == [pv : PVs, rest : Seq(Int), chunk : Seq(Int), pending : Seq(Int)]

\* While no stream is opened, and none closed unless running_ is cleared, the
\* facts about streams and what they deliver stay.
LEMMA StreamsStay ==
  ASSUME ReaderInv,
         UNCHANGED <<conf, stream, mark, published, broken, due, pvQueue>>,
         cycle'.from = cycle.from, cycle'.to = cycle.to,
         fetching' => fetching,
         \A w \in Threads : fpc'[w] = "fetch" => fpc[w] = "fetch",
         fetching' => \A w \in Threads : fpc[w] = "fetch" => fpc'[w] = "fetch",
         fetching' /\ TailMode /\ fpc[0] = "populate" => fpc'[0] = "populate"
  PROVE  PlaceInv' /\ StreamInv' /\ OutInv' /\ CoverInv' /\ PassedInv'
<1>0. /\ ReaderTypes /\ PlaceInv /\ StreamInv /\ OutInv /\ CoverInv /\ PassedInv
      /\ CycleInv
  BY DEF ReaderInv
<1>1. Threads' = Threads /\ (TailMode' <=> TailMode)
  BY DEF Threads, TailMode
<1>2. \A w \in Threads : \A p : Open(w, p)' => Open(w, p)
  BY DEF Open
<1>3. PlaceInv'
  BY <1>0, <1>1, <1>2 DEF PlaceInv
<1>4. \A w : Held(w)' = Held(w) /\ Rest(w)' = Rest(w)
  BY DEF Held, Rest
<1>5. StreamInv'
  BY <1>0, <1>1, <1>4 DEF StreamInv
<1>6. OutInv'
  BY <1>0 DEF OutInv
<1>7. fetching' => \A w \in Threads : \A p : Open(w, p) => Open(w, p)'
  BY DEF Open
<1>8. fetching' => \A p, t : Waits(p, t) => Waits(p, t)'
  BY <1>1 DEF Waits
<1>9. CoverInv'
  BY <1>0, <1>1, <1>4, <1>7, <1>8 DEF CoverInv
<1>10. PassedInv'
  <2>1. TailMode => 0 \in Threads
    BY <1>0 DEF CycleInv
  <2> QED
    BY <1>0, <1>1, <1>4, <1>7, <2>1 DEF PassedInv
<1> QED
  BY <1>3, <1>5, <1>6, <1>9, <1>10

\* Completion stays reported, and only a step that changes completions reports it.
LEMMA ReportStays ==
  ASSUME ReaderInv, UNCHANGED <<conf, completions, published, broken, due>>,
         \A w \in Threads : fpc[w] = "done" => fpc'[w] = "done"
  PROVE  ReportInv'
BY DEF ReaderInv, ReportInv, Threads, TailMode

\* A step of the threads through their loop that opens no stream keeps the
\* invariant if it keeps the facts about the cycle and the report.
LEMMA LoopStep ==
  ASSUME ReaderInv, CycleInv', ReportInv',
         UNCHANGED <<conf, stream, mark, published, broken, due, pvQueue>>,
         cycle'.from = cycle.from, cycle'.to = cycle.to,
         fetching' \in BOOLEAN, fetching' => fetching, completions' \in Nat,
         now' \in Int, prevEnd' \in Int,
         window' \in [Threads -> [from : Int, to : Int]], ~TailMode => window' = window,
         fpc' \in [Threads -> Points],
         \A w \in Threads : fpc'[w] = "fetch" => fpc[w] = "fetch",
         fetching' => \A w \in Threads : fpc[w] = "fetch" => fpc'[w] = "fetch",
         fetching' /\ TailMode /\ fpc[0] = "populate" => fpc'[0] = "populate",
         ~TailMode => \A w \in Threads :
           /\ fpc'[w] \in {"top", "loop", "fetch", "exit", "done"}
           /\ fpc'[w] \in {"exit", "done"} => ~fetching' \/ pvQueue = <<>>
  PROVE  ReaderInv'
<1>1. PlaceInv' /\ StreamInv' /\ OutInv' /\ CoverInv' /\ PassedInv'
  BY StreamsStay
<1>2. Threads' = Threads /\ (TailMode' <=> TailMode)
  BY DEF Threads, TailMode
<1>3. ReaderTypes'
  BY <1>2 DEF ReaderInv, ReaderTypes
<1>4. RangeInv'
  <2>1. ReaderTypes /\ RangeInv
    BY DEF ReaderInv
  <2>2. \A w : Rest(w)' = Rest(w)
    BY DEF Rest
  <2> QED
    BY <1>2, <2>1, <2>2 DEF RangeInv, ReaderTypes
<1> QED
  BY <1>1, <1>3, <1>4 DEF ReaderInv

\* One thread goes on.
LEMMA Moved ==
  ASSUME ReaderTypes, NEW w \in Threads, NEW x \in Points, Goto(w, x), conf' = conf
  PROVE  /\ fpc' \in [Threads -> Points] /\ fpc'[w] = x
         /\ \A v \in Threads : v # w => fpc'[v] = fpc[v]
         /\ Threads' = Threads /\ (TailMode' <=> TailMode)
BY DEF ReaderTypes, Goto, Threads, TailMode

\* while (running_), for all but the coordinator at the start of a cycle.
LEMMA TopStep ==
  ASSUME ReaderInv, NEW w \in Threads, fpc[w] = "top",
         ~fetching \/ ~TailMode \/ w > 0,
         Goto(w, IF ~fetching THEN "exit" ELSE IF ~TailMode THEN "loop" ELSE "test"),
         UNCHANGED <<cycle, due, control, times, local, output, pvQueue>>
  PROVE  ReaderInv'
<1>0. /\ ReaderTypes /\ RangeInv /\ CycleInv
      /\ UNCHANGED <<conf, fetching, now, prevEnd, window, stream, mark, completions, published, broken>>
  BY DEF ReaderInv, control, times, local, output
<1>1. PICK x \in {"exit", "loop", "test"} :
        /\ Goto(w, x)
        /\ (~TailMode => x # "test" /\ (x = "exit" => ~fetching))
        /\ (TailMode /\ w = 0 => x = "exit" /\ ~fetching)
  BY <1>0 DEF ReaderTypes
<1>2. /\ fpc' \in [Threads -> Points] /\ fpc'[w] = x
      /\ \A v \in Threads : v # w => fpc'[v] = fpc[v]
      /\ Threads' = Threads /\ (TailMode' <=> TailMode)
  BY <1>0, <1>1, Moved DEF Points
<1>3. ReportInv'
  BY <1>0, <1>2, ReportStays
<1>4. CycleInv'
  BY <1>0, <1>1, <1>2 DEF CycleInv, Within
<1>5. ~TailMode => \A v \in Threads :
           /\ fpc'[v] \in {"top", "loop", "fetch", "exit", "done"}
           /\ fpc'[v] \in {"exit", "done"} => ~fetching' \/ pvQueue = <<>>
  BY <1>0, <1>1, <1>2 DEF RangeInv
<1>6. fetching' \in BOOLEAN /\ completions' \in Nat /\ now' \in Int /\ prevEnd' \in Int
      /\ window' \in [Threads -> [from : Int, to : Int]]
  BY <1>0 DEF ReaderTypes
<1>7. TailMode => w = 0
  BY <1>0 DEF CycleInv
<1> QED
  BY <1>0, <1>1, <1>2, <1>3, <1>4, <1>5, <1>6, <1>7, LoopStep

\* Only the one tail thread is ever at the points of the cycle.
LEMMA TailPoint ==
  ASSUME ReaderInv, NEW w \in Threads, fpc[w] \notin {"top", "loop", "fetch", "exit", "done"}
  PROVE  TailMode /\ w = 0 /\ Threads = {0}
BY DEF ReaderInv, RangeInv, CycleInv

\* The tail thread goes on within its cycle, with everything but its window as it was.
LEMMA CycleStep ==
  ASSUME ReaderInv, NEW x \in Points, TailMode, fpc[0] # "done", fpc[0] # "fetch", x # "fetch",
         fpc[0] # "populate", fpc' \in [Threads -> Points], fpc'[0] = x,
         UNCHANGED <<control, output, stream, mark, due, pvQueue>>,
         cycle'.from = cycle.from, cycle'.to = cycle.to, now' \in Int, prevEnd' \in Int,
         window' \in [Threads -> [from : Int, to : Int]], CycleInv'
  PROVE  ReaderInv'
<1>0. /\ ReaderTypes /\ RangeInv /\ CycleInv /\ Threads = {0}
      /\ UNCHANGED <<conf, fetching, completions, published, broken>>
  BY DEF ReaderInv, control, output, CycleInv
<1>1. \A v \in Threads : v = 0
  BY <1>0
<1>2. ReportInv'
  BY <1>0, <1>1, ReportStays
<1>3. fetching' \in BOOLEAN /\ completions' \in Nat
  BY <1>0 DEF ReaderTypes
<1> QED
  BY <1>0, <1>1, <1>2, <1>3, LoopStep

\* fetch_add and notify_all.
LEMMA SignalStep ==
  ASSUME ReaderInv, NEW w \in Threads, Signal(w)
  PROVE  ReaderInv'
<1>0. /\ ReaderTypes /\ CycleInv /\ fpc[w] = "signal" /\ fpc' = [Notified EXCEPT ![w] = "test"]
      /\ UNCHANGED <<control, output, stream, mark, due, pvQueue, now, prevEnd, window, conf, fetching, published>>
      /\ cycle'.from = cycle.from /\ cycle'.to = cycle.to
  BY DEF ReaderInv, Signal, Here, control, times, local, output
<1>1. TailMode /\ w = 0 /\ Threads = {0}
  BY <1>0, TailPoint
<1>2. fpc' \in [Threads -> Points] /\ fpc'[0] = "test"
  BY <1>0, <1>1 DEF Notified, Points
<1>3. Threads' = Threads /\ (TailMode' <=> TailMode)
  BY <1>0 DEF Threads, TailMode
<1>4. CycleInv'
  BY <1>0, <1>1, <1>2, <1>3 DEF CycleInv, Within
<1>5. now' \in Int /\ prevEnd' \in Int /\ window' \in [Threads -> [from : Int, to : Int]]
  BY <1>0 DEF ReaderTypes
<1>6. "test" \in Points
  BY DEF Points
<1> QED
  BY <1>0, <1>1, <1>2, <1>4, <1>5, <1>6, CycleStep

\* The predicate of the wait.
LEMMA TestStep ==
  ASSUME ReaderInv, NEW w \in Threads, Test(w)
  PROVE  ReaderInv'
<1>0. /\ ReaderTypes /\ CycleInv /\ fpc[w] = "test"
      /\ Goto(w, IF ~fetching THEN "exit" ELSE IF cycle.ready > lastSeen[w] THEN "window" ELSE "park")
      /\ UNCHANGED <<control, output, stream, mark, due, pvQueue, now, prevEnd, window, conf, fetching, published, cycle>>
  BY DEF ReaderInv, Test, Here, control, times, shared, output
<1>1. TailMode /\ w = 0 /\ Threads = {0}
  BY <1>0, TailPoint
<1>2. PICK x \in {"exit", "window", "park"} : Goto(w, x) /\ (x = "exit" => ~fetching)
  BY <1>0 DEF ReaderTypes
<1>3. /\ fpc' \in [Threads -> Points] /\ fpc'[0] = x
      /\ Threads' = Threads /\ (TailMode' <=> TailMode)
  BY <1>0, <1>1, <1>2, Moved DEF Points
<1>4. CycleInv'
  BY <1>0, <1>1, <1>2, <1>3 DEF CycleInv, Within
<1>5. now' \in Int /\ prevEnd' \in Int /\ window' \in [Threads -> [from : Int, to : Int]]
  BY <1>0 DEF ReaderTypes
<1>6. x \in Points /\ x # "fetch"
  BY DEF Points
<1> QED
  BY <1>0, <1>1, <1>3, <1>4, <1>5, <1>6, CycleStep

\* The wait.
LEMMA ParkStep ==
  ASSUME ReaderInv, NEW w \in Threads, Park(w)
  PROVE  ReaderInv'
<1>0. /\ ReaderTypes /\ CycleInv /\ fpc[w] = "park" /\ Goto(w, "blocked")
      /\ UNCHANGED <<control, output, stream, mark, due, pvQueue, now, prevEnd, window, conf, fetching, published, cycle>>
  BY DEF ReaderInv, Park, Here, control, times, shared, local, output
<1>1. TailMode /\ w = 0 /\ Threads = {0}
  BY <1>0, TailPoint
<1>2. "blocked" \in Points
  BY DEF Points
<1>3. /\ fpc' \in [Threads -> Points] /\ fpc'[0] = "blocked"
      /\ Threads' = Threads /\ (TailMode' <=> TailMode)
  BY <1>0, <1>1, <1>2, Moved
<1>4. CycleInv'
  BY <1>0, <1>1, <1>3 DEF CycleInv, Within
<1>5. now' \in Int /\ prevEnd' \in Int /\ window' \in [Threads -> [from : Int, to : Int]]
  BY <1>0 DEF ReaderTypes
<1> QED
  BY <1>0, <1>1, <1>2, <1>3, <1>4, <1>5, CycleStep

\* The copy of the window.
LEMMA WindowStep ==
  ASSUME ReaderInv, NEW w \in Threads, ReadWindow(w)
  PROVE  ReaderInv'
<1>0. /\ ReaderTypes /\ CycleInv /\ fpc[w] = "window" /\ Goto(w, "loop")
      /\ window' = [window EXCEPT ![w] = [from |-> cycle.from, to |-> cycle.to]]
      /\ UNCHANGED <<control, output, stream, mark, due, pvQueue, now, prevEnd, conf, fetching, published, cycle>>
  BY DEF ReaderInv, ReadWindow, Here, control, times, shared, output
<1>1. TailMode /\ w = 0 /\ Threads = {0}
  BY <1>0, TailPoint
<1>2. "loop" \in Points
  BY DEF Points
<1>3. /\ fpc' \in [Threads -> Points] /\ fpc'[0] = "loop"
      /\ Threads' = Threads /\ (TailMode' <=> TailMode)
  BY <1>0, <1>1, <1>2, Moved
<1>4. now' \in Int /\ prevEnd' \in Int /\ window' \in [Threads -> [from : Int, to : Int]]
      /\ window'[0] = [from |-> cycle.from, to |-> cycle.to]
  BY <1>0, <1>1 DEF ReaderTypes
<1>5. CycleInv'
  BY <1>0, <1>1, <1>3, <1>4 DEF CycleInv, Within
<1> QED
  BY <1>0, <1>1, <1>2, <1>3, <1>4, <1>5, CycleStep

\* The coordinator's pause.
LEMMA SleepStep ==
  ASSUME ReaderInv, NEW w \in Threads, Sleep(w)
  PROVE  ReaderInv'
<1>0. /\ ReaderTypes /\ CycleInv /\ fpc[w] = "sleep" /\ Goto(w, "top")
      /\ \/ ~fetching /\ now' = now
         \/ \E d \in 0 .. MaxDelay : now' = now + Poll + d
      /\ UNCHANGED <<control, output, stream, mark, due, pvQueue, window, prevEnd, conf, fetching, published, cycle>>
  BY DEF ReaderInv, Sleep, Here, control, times, shared, local, output
<1>1. TailMode /\ w = 0 /\ Threads = {0}
  BY <1>0, TailPoint
<1>2. "top" \in Points
  BY DEF Points
<1>3. /\ fpc' \in [Threads -> Points] /\ fpc'[0] = "top"
      /\ Threads' = Threads /\ (TailMode' <=> TailMode)
  BY <1>0, <1>1, <1>2, Moved
<1>4. now' \in Int /\ (fetching => now' >= now + Poll)
  <2>1. now \in Int /\ Poll \in Nat /\ MaxDelay \in Nat
    BY <1>0, ArchiverAssumption DEF ReaderTypes
  <2>2. \A d \in 0 .. MaxDelay : now + Poll + d \in Int /\ now + Poll + d >= now + Poll
    BY <2>1
  <2> QED
    BY <1>0, <2>1, <2>2
<1>5. prevEnd' \in Int /\ window' \in [Threads -> [from : Int, to : Int]]
  BY <1>0 DEF ReaderTypes
<1>6. CycleInv'
  BY <1>0, <1>1, <1>3, <1>4 DEF CycleInv, Within
<1> QED
  BY <1>0, <1>1, <1>2, <1>3, <1>4, <1>5, <1>6, CycleStep

\* The end of the loop over the queue.
LEMMA LeaveLoopStep ==
  ASSUME ReaderInv, NEW w \in Threads, LeaveLoop(w)
  PROVE  ReaderInv'
<1>0. /\ ReaderTypes /\ RangeInv /\ CycleInv /\ fpc[w] = "loop" /\ (~fetching \/ pvQueue = <<>>)
      /\ Goto(w, IF ~TailMode THEN "exit" ELSE IF w = 0 THEN "sleep" ELSE "top")
      /\ UNCHANGED <<conf, fetching, now, prevEnd, pvQueue, cycle, due, window, stream, mark,
                     completions, published, broken>>
  BY DEF ReaderInv, LeaveLoop, Here, control, times, shared, local, output
<1>1. PICK x \in {"exit", "sleep", "top"} :
        Goto(w, x) /\ (~TailMode => x = "exit") /\ (TailMode /\ w = 0 => x = "sleep")
  BY <1>0
<1>2. /\ fpc' \in [Threads -> Points] /\ fpc'[w] = x
      /\ \A v \in Threads : v # w => fpc'[v] = fpc[v]
      /\ Threads' = Threads /\ (TailMode' <=> TailMode)
  BY <1>0, <1>1, Moved DEF Points
<1>3. TailMode => w = 0
  BY <1>0 DEF CycleInv
<1>4. ReportInv'
  BY <1>0, <1>2, ReportStays
<1>5. CycleInv'
  BY <1>0, <1>1, <1>2, <1>3 DEF CycleInv, Within
<1>6. ~TailMode => \A v \in Threads :
           /\ fpc'[v] \in {"top", "loop", "fetch", "exit", "done"}
           /\ fpc'[v] \in {"exit", "done"} => ~fetching' \/ pvQueue = <<>>
  BY <1>0, <1>1, <1>2 DEF RangeInv
<1>7. fetching' \in BOOLEAN /\ completions' \in Nat /\ now' \in Int /\ prevEnd' \in Int
      /\ window' \in [Threads -> [from : Int, to : Int]]
  BY <1>0 DEF ReaderTypes
<1> QED
  BY <1>0, <1>1, <1>2, <1>3, <1>4, <1>5, <1>6, <1>7, LoopStep

\* A thread ends.  The last one of a historical read has left an empty queue and
\* no stream behind, so all that was due has been pushed.
LEMMA LeaveStep ==
  ASSUME ReaderInv, NEW w \in Threads, Leave(w)
  PROVE  ReaderInv'
<1>0. /\ ReaderTypes /\ RangeInv /\ CycleInv /\ CoverInv /\ ReportInv /\ fpc[w] = "exit" /\ Goto(w, "done")
      /\ completions' =
           IF (\A v \in Threads \ {w} : fpc[v] = "done") /\ ~TailMode /\ fetching
           THEN completions + 1 ELSE completions
      /\ UNCHANGED <<conf, fetching, now, prevEnd, pvQueue, cycle, due, window, stream, mark,
                     published, broken>>
  BY DEF ReaderInv, Leave, Here, control, times, shared, local, output
<1>1. "done" \in Points
  BY DEF Points
<1>2. /\ fpc' \in [Threads -> Points] /\ fpc'[w] = "done"
      /\ \A v \in Threads : v # w => fpc'[v] = fpc[v]
      /\ Threads' = Threads /\ (TailMode' <=> TailMode)
  BY <1>0, <1>1, Moved
<1>3. completions = 0
  BY <1>0 DEF ReportInv, ReaderTypes
<1>4. ReportInv'
  <2>1. CASE (\A v \in Threads \ {w} : fpc[v] = "done") /\ ~TailMode /\ fetching
    <3>1. \A v \in Threads : fpc[v] # "fetch" /\ fpc'[v] = "done"
      BY <1>0, <1>2, <2>1
    <3>2. ToSet(pvQueue) = {}
      BY <1>0, <2>1, NoElement DEF RangeInv
    <3>3. \A p \in PVs : due \ broken[p] \subseteq ToSet(published[p])
      BY <1>0, <2>1, <3>1, <3>2 DEF CoverInv, Waits, Open
    <3> QED
      BY <1>0, <1>2, <1>3, <2>1, <3>1, <3>3 DEF ReportInv
  <2>2. CASE ~((\A v \in Threads \ {w} : fpc[v] = "done") /\ ~TailMode /\ fetching)
    BY <1>0, <1>3, <2>2 DEF ReportInv
  <2> QED
    BY <2>1, <2>2
<1>5. CycleInv'
  BY <1>0, <1>2 DEF CycleInv, Within
<1>6. ~TailMode => \A v \in Threads :
           /\ fpc'[v] \in {"top", "loop", "fetch", "exit", "done"}
           /\ fpc'[v] \in {"exit", "done"} => ~fetching' \/ pvQueue = <<>>
  BY <1>0, <1>2 DEF RangeInv
<1>7. fetching' \in BOOLEAN /\ completions' \in Nat /\ now' \in Int /\ prevEnd' \in Int
      /\ window' \in [Threads -> [from : Int, to : Int]]
  BY <1>0, <1>3 DEF ReaderTypes
<1>8. TailMode => w = 0
  BY <1>0 DEF CycleInv
<1> QED
  BY <1>0, <1>2, <1>4, <1>5, <1>6, <1>7, <1>8, LoopStep

\* A stream cut off by stopWorkers().
LEMMA CancelledStep ==
  ASSUME ReaderInv, NEW w \in Threads, FetchCancelled(w)
  PROVE  ReaderInv'
<1>0. /\ ReaderTypes /\ RangeInv /\ CycleInv /\ fpc[w] = "fetch" /\ ~fetching /\ Goto(w, "exit")
      /\ UNCHANGED <<conf, fetching, now, prevEnd, pvQueue, cycle, due, window, stream, mark,
                     completions, published, broken>>
  BY DEF ReaderInv, FetchCancelled, Here, control, times, shared, local, output
<1>1. "exit" \in Points
  BY DEF Points
<1>2. /\ fpc' \in [Threads -> Points] /\ fpc'[w] = "exit"
      /\ \A v \in Threads : v # w => fpc'[v] = fpc[v]
      /\ Threads' = Threads /\ (TailMode' <=> TailMode)
  BY <1>0, <1>1, Moved
<1>3. ReportInv'
  BY <1>0, <1>2, ReportStays
<1>4. TailMode => w = 0
  BY <1>0 DEF CycleInv
<1>5. CycleInv'
  BY <1>0, <1>2, <1>4 DEF CycleInv, Within
<1>6. ~TailMode => \A v \in Threads :
           /\ fpc'[v] \in {"top", "loop", "fetch", "exit", "done"}
           /\ fpc'[v] \in {"exit", "done"} => ~fetching' \/ pvQueue = <<>>
  BY <1>0, <1>2 DEF RangeInv
<1>7. fetching' \in BOOLEAN /\ completions' \in Nat /\ now' \in Int /\ prevEnd' \in Int
      /\ window' \in [Threads -> [from : Int, to : Int]]
  BY <1>0 DEF ReaderTypes
<1> QED
  BY <1>0, <1>2, <1>3, <1>5, <1>6, <1>7, LoopStep

\* stopWorkers().
LEMMA StopStep ==
  ASSUME ReaderInv, StopStore \/ StopNotify \/ StopJoin
  PROVE  ReaderInv'
<1>0. /\ ReaderTypes /\ RangeInv /\ CycleInv
      /\ UNCHANGED <<conf, now, prevEnd, pvQueue, cycle, due, window, stream, mark,
                     completions, published, broken>>
      /\ fetching' = fetching \/ fetching' = FALSE
      /\ fpc' = fpc \/ fpc' = Notified
  BY DEF ReaderInv, StopStore, StopNotify, StopJoin, times, shared, local, output
<1>1. /\ fpc' \in [Threads -> Points]
      /\ \A v \in Threads : fpc'[v] = fpc[v] \/ (fpc[v] = "blocked" /\ fpc'[v] = "test")
  BY <1>0 DEF Notified, Points, ReaderTypes
<1>2. Threads' = Threads /\ (TailMode' <=> TailMode)
  BY <1>0 DEF Threads, TailMode
<1>3. ReportInv'
  BY <1>0, <1>1, ReportStays
<1>4. CycleInv'
  BY <1>0, <1>1, <1>2 DEF CycleInv, Within, ReaderTypes
<1>5. ~TailMode => \A v \in Threads :
           /\ fpc'[v] \in {"top", "loop", "fetch", "exit", "done"}
           /\ fpc'[v] \in {"exit", "done"} => ~fetching' \/ pvQueue = <<>>
  BY <1>0, <1>1 DEF RangeInv
<1>6. fetching' \in BOOLEAN /\ completions' \in Nat /\ now' \in Int /\ prevEnd' \in Int
      /\ window' \in [Threads -> [from : Int, to : Int]] /\ (fetching' => fetching)
  <2>1. fetching \in BOOLEAN /\ completions' \in Nat /\ now' \in Int /\ prevEnd' \in Int
        /\ window' \in [Threads -> [from : Int, to : Int]]
    BY <1>0 DEF ReaderTypes
  <2>2. CASE fetching' = fetching
    BY <2>1, <2>2
  <2>3. CASE fetching' = FALSE
    BY <2>1, <2>3
  <2> QED
    BY <1>0, <2>2, <2>3
<1>7. TailMode => 0 \in Threads
  BY <1>0 DEF CycleInv
<1> QED
  BY <1>0, <1>1, <1>3, <1>4, <1>5, <1>6, <1>7, LoopStep

-----------------------------------------------------------------------------
(* The queue and the windows. *)

\* The first PV of the queue and the others.
LEMMA NextPV ==
  ASSUME NEW q \in Seq(PVs), q # <<>>, Unrepeated(q)
  PROVE  /\ Head(q) \in PVs /\ Tail(q) \in Seq(PVs) /\ Unrepeated(Tail(q))
         /\ \A p : p \in ToSet(q) <=> p = Head(q) \/ p \in ToSet(Tail(q))
         /\ Head(q) \notin ToSet(Tail(q))
<1>1. /\ Head(q) = q[1] /\ Head(q) \in PVs /\ Tail(q) \in Seq(PVs) /\ 1 \in DOMAIN q
      /\ Len(q) \in Nat /\ DOMAIN q = 1 .. Len(q) /\ DOMAIN Tail(q) = 1 .. Len(q) - 1
  OBVIOUS
<1>2. \A i \in DOMAIN Tail(q) : i \in Nat /\ i + 1 \in DOMAIN q /\ Tail(q)[i] = q[i + 1] /\ 1 # i + 1
  BY <1>1
<1>3. \A i \in DOMAIN q : i # 1 => i - 1 \in DOMAIN Tail(q) /\ Tail(q)[i - 1] = q[i]
  BY <1>1
<1>4. Unrepeated(Tail(q))
  <2>1. ASSUME NEW i \in DOMAIN Tail(q), NEW j \in DOMAIN Tail(q), Tail(q)[i] = Tail(q)[j] PROVE i = j
    <3>1. q[i + 1] = q[j + 1] /\ i + 1 \in DOMAIN q /\ j + 1 \in DOMAIN q
      BY <1>2, <2>1
    <3>2. i + 1 = j + 1
      BY <3>1 DEF Unrepeated
    <3> QED
      BY <1>2, <3>2
  <2> QED
    BY <2>1 DEF Unrepeated
<1>5. Head(q) \notin ToSet(Tail(q))
  <2> SUFFICES ASSUME NEW i \in DOMAIN Tail(q), Head(q) = Tail(q)[i] PROVE FALSE
    BY DEF ToSet
  <2>1. q[1] = q[i + 1]
    BY <1>1, <1>2
  <2> QED
    BY <1>1, <1>2, <2>1 DEF Unrepeated
<1>6. ASSUME NEW p \in ToSet(q), p # Head(q) PROVE p \in ToSet(Tail(q))
  <2>1. PICK i \in DOMAIN q : p = q[i]
    BY DEF ToSet
  <2>2. i # 1
    BY <1>1, <1>6, <2>1
  <2> QED
    BY <1>3, <2>1, <2>2 DEF ToSet
<1>7. Head(q) \in ToSet(q) /\ \A p \in ToSet(Tail(q)) : p \in ToSet(q)
  BY <1>1, <1>2 DEF ToSet
<1> QED
  BY <1>1, <1>4, <1>5, <1>6, <1>7

\* The coordinator begins a cycle: the new window starts no earlier than the last
\* one ended, so all of it that a watermark has passed was due before.
LEMMA BeginStep ==
  ASSUME ReaderInv, TailMode, fetching, fpc[0] = "top", 0 \in Threads,
         cycle' = [ready |-> cycle.ready, from |-> WindowStart, to |-> now],
         due' = due \cup (WindowStart .. now), Goto(0, "populate"),
         UNCHANGED <<control, times, local, output, pvQueue>>
  PROVE  ReaderInv'
<1>0. /\ ReaderTypes /\ PlaceInv /\ RangeInv /\ CycleInv /\ OutInv /\ CoverInv /\ PassedInv /\ ReportInv
      /\ UNCHANGED <<conf, fetching, now, prevEnd, window, stream, mark, completions, published, broken>>
  BY DEF ReaderInv, control, times, local, output
<1>1. "populate" \in Points
  BY DEF Points
<1>2. /\ fpc' \in [Threads -> Points] /\ fpc'[0] = "populate" /\ Threads = {0}
      /\ Threads' = Threads /\ TailMode'
  BY <1>0, <1>1, Moved DEF CycleInv
<1>3. pvQueue = <<>> /\ ToSet(pvQueue) = {}
  BY <1>0, NoElement DEF CycleInv
<1> PICK f : f = WindowStart
  OBVIOUS
<1>4. /\ f \in Int /\ now \in Int /\ f <= now /\ now >= 0 /\ cycle.to \in Int
      /\ \/ f >= cycle.to /\ cycle.to >= 0 /\ cycle.to <= now
         \/ f >= 0 /\ due = {} /\ \A p \in PVs : mark[0][p] = -1
  <2>1. /\ conf.lookback \in 1 .. Poll /\ Poll \in Nat \ {0}
        /\ now \in Int /\ prevEnd \in Int /\ cycle.to \in Int
    BY <1>0, ConfFacts DEF ReaderTypes
  <2>2. CASE prevEnd = cycle.to /\ cycle.to >= 0 /\ now >= cycle.to + Poll
    BY <2>1, <2>2 DEF WindowStart
  <2>3. CASE prevEnd = -1 /\ due = {} /\ now = Poll /\ \A p \in PVs : mark[0][p] = -1
    BY <2>1, <2>3 DEF WindowStart
  <2> QED
    BY <1>0, <2>2, <2>3 DEF CycleInv
<1>5. \A p \in PVs : mark[0][p] \in Int
  <2>1. 0 \in Threads /\ mark \in [Threads -> [PVs -> Int]]
    BY <1>0 DEF ReaderTypes
  <2> QED
    BY <2>1
<1>6. ASSUME NEW p \in PVs, NEW t \in f .. now, t <= mark[0][p] PROVE t \in due
  <2>1. t \in Int /\ f <= t /\ mark[0][p] \in Int
    BY <1>4, <1>5
  <2>2. mark[0][p] <= cycle.to /\ (mark[0][p] = -1 \/ mark[0][p] \in due)
    BY <1>0 DEF CycleInv
  <2>3. CASE f >= cycle.to /\ cycle.to >= 0
    <3>1. t = mark[0][p] /\ mark[0][p] # -1
      BY <1>4, <1>6, <2>1, <2>2, <2>3
    <3> QED
      BY <2>2, <3>1
  <2>4. CASE f >= 0 /\ mark[0][p] = -1
    BY <1>4, <1>6, <2>1, <2>4
  <2> QED
    BY <1>4, <2>3, <2>4
<1>7. f .. now \subseteq Int
  BY <1>4
<1>8. cycle'.from = f /\ cycle'.to = now /\ due' = due \cup (f .. now)
  OBVIOUS
<1>10. ReaderTypes'
  BY <1>0, <1>2, <1>4, <1>7, <1>8 DEF ReaderTypes
<1>11. PlaceInv'
  BY <1>0, <1>2, <1>3 DEF PlaceInv, Open
<1>12. RangeInv' /\ StreamInv'
  BY <1>2 DEF RangeInv, StreamInv
<1>13. OutInv'
  BY <1>0, <1>8 DEF OutInv
<1>14. CoverInv'
  <2> SUFFICES ASSUME NEW p \in PVs, NEW t \in due' PROVE t \in broken[p] \cup ToSet(published[p]) \/ Waits(p, t)'
    BY <1>0 DEF CoverInv
  <2>1. CASE t \in due
    BY <1>0, <1>2, <1>3, <2>1 DEF CoverInv, Waits, Open
  <2>2. CASE t \in f .. now
    BY <1>2, <1>8, <2>2 DEF Waits
  <2> QED
    BY <1>8, <2>1, <2>2
<1>15. PassedInv'
  <2> SUFFICES ASSUME NEW p \in PVs, NEW t \in due', t <= mark[0][p]
               PROVE  t \in broken[p] \cup ToSet(published[p])
    BY <1>0 DEF PassedInv
  <2>1. t \in due
    BY <1>6, <1>8
  <2> QED
    BY <1>0, <2>1 DEF PassedInv, Open
<1>16. ReportInv'
  BY <1>0 DEF ReportInv
<1>17. CycleInv'
  <2>1. ASSUME NEW t \in due' PROVE t <= now
    <3>1. CASE t \in due
      <4>1. t \in Int /\ (t <= cycle.to \/ due = {})
        BY <1>0, <3>1 DEF CycleInv, ReaderTypes
      <4>2. cycle.to <= now
        BY <1>4, <3>1
      <4> QED
        BY <1>4, <3>1, <4>1, <4>2
    <3>2. CASE t \in f .. now
      BY <1>4, <3>2
    <3> QED
      BY <1>8, <3>1, <3>2
  <2>2. \A p \in PVs : mark[0][p] <= now /\ (mark[0][p] = -1 \/ mark[0][p] \in due')
    BY <1>0, <1>4, <1>5, <1>8 DEF CycleInv
  <2> QED
    BY <1>0, <1>2, <1>3, <1>4, <1>8, <2>1, <2>2 DEF CycleInv, Within
<1> QED
  BY <1>10, <1>11, <1>12, <1>13, <1>14, <1>15, <1>16, <1>17 DEF ReaderInv

\* The coordinator fills the queue: every PV waits for the window.
LEMMA PopulateStep ==
  ASSUME ExactReader, ReaderInv, NEW w \in Threads, Populate(w)
  PROVE  ReaderInv'
<1>0. /\ ReaderTypes /\ PlaceInv /\ CycleInv /\ OutInv /\ CoverInv /\ PassedInv /\ ReportInv
      /\ fpc[w] = "populate" /\ Goto(w, "signal") /\ pvQueue' = PVList /\ prevEnd' = now
      /\ UNCHANGED <<conf, fetching, now, cycle, due, window, stream, mark, completions, published, broken>>
  BY DEF ReaderInv, Populate, Here, control, local, output
<1>1. "signal" \in Points
  BY DEF Points
<1>2. TailMode /\ w = 0 /\ Threads = {0}
  BY <1>0, TailPoint
<1>3. /\ fpc' \in [Threads -> Points] /\ fpc'[0] = "signal" /\ Threads' = Threads /\ TailMode'
  BY <1>0, <1>1, <1>2, Moved
<1>4. ToSet(pvQueue') = PVs /\ pvQueue' \in Seq(PVs) /\ Unrepeated(pvQueue')
  BY <1>0, ArchiverAssumption DEF PVs, ExactReader
<1>10. ReaderTypes'
  BY <1>0, <1>3, <1>4 DEF ReaderTypes
<1>11. PlaceInv'
  BY <1>2, <1>3, <1>4 DEF PlaceInv, Open
<1>12. RangeInv' /\ StreamInv'
  BY <1>2, <1>3 DEF RangeInv, StreamInv
<1>13. OutInv' /\ ReportInv'
  BY <1>0, <1>2 DEF OutInv, ReportInv
<1>14. CoverInv'
  <2> SUFFICES ASSUME fetching, NEW p \in PVs, NEW t \in due
               PROVE  t \in broken[p] \cup ToSet(published[p]) \/ Waits(p, t)'
    BY <1>0 DEF CoverInv
  <2>1. t \in broken[p] \cup ToSet(published[p]) \/ Waits(p, t)
    BY <1>0, <1>2 DEF CoverInv, Open
  <2>2. Waits(p, t) => Waits(p, t)'
    BY <1>0, <1>2, <1>3, <1>4 DEF Waits
  <2> QED
    BY <2>1, <2>2
<1>15. PassedInv'
  BY <1>0, <1>2, <1>3 DEF PassedInv, Open
<1>16. CycleInv'
  BY <1>0, <1>2, <1>3 DEF CycleInv, Within
<1> QED
  BY <1>10, <1>11, <1>12, <1>13, <1>14, <1>15, <1>16 DEF ReaderInv

\* A thread takes the first PV of the queue and opens its stream, which has all of
\* the window.
LEMMA PopStep ==
  ASSUME ReaderInv, NEW w \in Threads, Pop(w)
  PROVE  ReaderInv'
<1> PICK h : h = Head(pvQueue)
  OBVIOUS
<1> PICK r : r = Samples(window[w].from, window[w].to)
  OBVIOUS
<1>s. PICK s : s = [pv |-> h, rest |-> r, chunk |-> <<>>, pending |-> <<>>]
  OBVIOUS
<1>0. /\ ReaderTypes /\ PlaceInv /\ RangeInv /\ CycleInv /\ StreamInv /\ OutInv /\ CoverInv /\ PassedInv
      /\ ReportInv /\ fpc[w] = "loop" /\ fetching /\ pvQueue # <<>> /\ Goto(w, "fetch")
      /\ pvQueue' = Tail(pvQueue)
      /\ UNCHANGED <<conf, fetching, now, prevEnd, cycle, due, window, mark, completions, published, broken>>
  BY DEF ReaderInv, Pop, Here, control, times, output
<1>1. stream' = [stream EXCEPT ![w] = s]
  BY <1>s DEF Pop, Stream
<1>2. "fetch" \in Points
  BY DEF Points
<1>3. /\ fpc' \in [Threads -> Points] /\ fpc'[w] = "fetch"
      /\ \A v \in Threads : v # w => fpc'[v] = fpc[v]
      /\ Threads' = Threads /\ (TailMode' <=> TailMode) /\ (TailMode => w = 0 /\ Threads = {0})
  BY <1>0, <1>2, Moved DEF CycleInv
<1>4. /\ h \in PVs /\ pvQueue' \in Seq(PVs) /\ Unrepeated(pvQueue')
      /\ \A p : p \in ToSet(pvQueue) <=> p = h \/ p \in ToSet(pvQueue')
      /\ h \notin ToSet(pvQueue')
  BY <1>0, NextPV DEF ReaderTypes, PlaceInv
<1>5. /\ r \in Seq(Int) /\ Ascending(r) /\ ToSet(r) = window[w].from .. window[w].to
  BY <1>0, SamplesAre DEF ReaderTypes
<1>6. /\ s.pv = h /\ s.rest = r /\ s.chunk = <<>> /\ s.pending = <<>>
      /\ s \in [pv : PVs, rest : Seq(Int), chunk : Seq(Int), pending : Seq(Int)]
  BY <1>4, <1>5, <1>s
<1>7. /\ stream' \in [Threads -> [pv : PVs, rest : Seq(Int), chunk : Seq(Int), pending : Seq(Int)]]
      /\ stream'[w] = s /\ \A v \in Threads : v # w => stream'[v] = stream[v]
  BY <1>0, <1>1, <1>6 DEF ReaderTypes
<1>8. /\ \A v \in Threads : v # w => Held(v)' = Held(v) /\ Rest(v)' = Rest(v)
      /\ Held(w)' = {} /\ Rest(w)' = window[w].from .. window[w].to
  BY <1>5, <1>6, <1>7, NoElement DEF Held, Rest
<1>9. \A v \in Threads : \A p : Open(v, p)' <=> (v = w /\ p = h) \/ Open(v, p)
  BY <1>0, <1>3, <1>6, <1>7 DEF Open
<1>10. ReaderTypes'
  BY <1>0, <1>3, <1>4, <1>7 DEF ReaderTypes
<1>11. PlaceInv'
  <2>1. \A v \in Threads : ~Open(v, h)
    BY <1>0, <1>4 DEF PlaceInv
  <2> QED
    BY <1>0, <1>3, <1>4, <1>9, <2>1 DEF PlaceInv
<1>12. RangeInv'
  <2> SUFFICES ASSUME ~TailMode PROVE RangeInv!2'
    BY <1>3 DEF RangeInv
  <2>1. /\ window[w] = [from |-> 0, to |-> 2] /\ mark[w][h] = -1
    BY <1>0, <1>4 DEF RangeInv, HistoricalFrom, HistoricalTo
  <2>2. \A x \in Rest(w)' : mark[w][h] < x
    BY <1>8, <2>1
  <2>3. \A v \in Threads : fpc'[v] = "fetch" => \A x \in Rest(v)' : mark[v][stream'[v].pv] < x
    <3> SUFFICES ASSUME NEW v \in Threads, fpc'[v] = "fetch", NEW x \in Rest(v)'
                 PROVE  mark[v][stream'[v].pv] < x
      OBVIOUS
    <3>1. CASE v = w
      BY <1>6, <1>7, <2>2, <3>1
    <3>2. CASE v # w
      <4>1. fpc[v] = "fetch" /\ x \in Rest(v) /\ stream'[v] = stream[v]
        BY <1>3, <1>7, <1>8, <3>2
      <4> QED
        BY <1>0, <4>1 DEF RangeInv
    <3> QED
      BY <3>1, <3>2
  <2>4. \A v \in Threads : /\ fpc'[v] \in {"top", "loop", "fetch", "exit", "done"}
                           /\ fpc'[v] \in {"exit", "done"} => pvQueue = <<>>
    BY <1>0, <1>3 DEF RangeInv
  <2> QED
    BY <1>0, <1>3, <1>4, <2>3, <2>4 DEF RangeInv
<1>13. CycleInv'
  BY <1>0, <1>3 DEF CycleInv, Within
<1>14. StreamInv'
  <2> SUFFICES ASSUME NEW v \in Threads, fpc'[v] = "fetch" PROVE StreamInv!(v)!2'
    BY <1>3 DEF StreamInv
  <2>1. CASE v # w
    BY <1>0, <1>3, <1>7, <1>8, <2>1 DEF StreamInv
  <2>2. CASE v = w
    <3>1. \A x \in ToSet(published[h]) : x <= mark[w][h]
      <4>1. CASE TailMode
        BY <1>0, <1>3, <1>4, <4>1 DEF CycleInv
      <4>2. CASE ~TailMode
        BY <1>0, <1>4, <4>2, NoElement DEF RangeInv
      <4> QED
        BY <4>1, <4>2
    <3>2. Rest(w)' \subseteq due
      <4>1. CASE TailMode
        BY <1>0, <1>3, <1>8, <4>1 DEF CycleInv, Within
      <4>2. CASE ~TailMode
        BY <1>0, <1>8, <4>2 DEF RangeInv
      <4> QED
        BY <4>1, <4>2
    <3> QED
      BY <1>0, <1>5, <1>6, <1>7, <1>8, <2>2, <3>1, <3>2, NoElement DEF StreamInv
  <2> QED
    BY <2>1, <2>2
<1>15. OutInv' /\ ReportInv'
  <2>1. completions = 0
    BY <1>0 DEF ReportInv, ReaderTypes
  <2> QED
    BY <1>0, <2>1 DEF OutInv, ReportInv
<1>16. CoverInv'
  <2> SUFFICES ASSUME NEW p \in PVs, NEW t \in due
               PROVE  \/ t \in broken[p] \cup ToSet(published[p])
                      \/ \E v \in Threads : Open(v, p)' /\ t \in (Held(v) \cup Rest(v))'
                      \/ Waits(p, t)'
    BY <1>0, <1>3 DEF CoverInv
  <2>1. CASE \E v \in Threads : Open(v, p) /\ t \in Held(v) \cup Rest(v)
    <3>1. PICK v \in Threads : Open(v, p) /\ t \in Held(v) \cup Rest(v)
      BY <2>1
    <3>2. v # w
      BY <1>0, <3>1 DEF Open
    <3> QED
      BY <1>8, <1>9, <3>1, <3>2
  <2>2. CASE Waits(p, t) /\ p = h
    <3>1. t \in Rest(w)'
      <4>1. CASE TailMode
        BY <1>0, <1>3, <1>8, <2>2, <4>1 DEF CycleInv, Waits
      <4>2. CASE ~TailMode
        BY <1>0, <1>8, <4>2 DEF RangeInv
      <4> QED
        BY <4>1, <4>2
    <3> QED
      BY <1>9, <2>2, <3>1
  <2>3. CASE Waits(p, t) /\ p # h
    BY <1>0, <1>3, <1>4, <2>3 DEF Waits
  <2> QED
    BY <1>0, <2>1, <2>2, <2>3 DEF CoverInv
<1>17. PassedInv'
  <2>1. TailMode => ~\E p : Open(0, p)
    BY <1>0, <1>3 DEF Open
  <2> QED
    BY <1>0, <1>3, <2>1 DEF PassedInv
<1> QED
  BY <1>10, <1>11, <1>12, <1>13, <1>14, <1>15, <1>16, <1>17 DEF ReaderInv

-----------------------------------------------------------------------------
(* The streams. *)

\* A batch that continues what a PV has published.
LEMMA Pushed ==
  ASSUME ReaderTypes, OutInv, NEW p \in PVs, NEW b \in Seq(Int), PushBatch(p, b),
         Ascending(b), ToSet(b) \subseteq due, \A x \in ToSet(published[p]), y \in ToSet(b) : x < y
  PROVE  /\ published' \in [PVs -> Seq(Int)]
         /\ \A q \in PVs : q # p => published'[q] = published[q]
         /\ Ascending(published'[p]) /\ ToSet(published'[p]) \subseteq due
         /\ ToSet(published[p]) \subseteq ToSet(published'[p])
         /\ ToSet(published'[p]) \subseteq ToSet(published[p]) \cup ToSet(b)
         /\ fetching => ToSet(published'[p]) = ToSet(published[p]) \cup ToSet(b)
<1>1. published[p] \in Seq(Int) /\ Ascending(published[p]) /\ ToSet(published[p]) \subseteq due
      /\ published \in [PVs -> Seq(Int)]
  BY DEF ReaderTypes, OutInv
<1>2. PICK c : c = published[p] \o b
  OBVIOUS
<1>3. c \in Seq(Int) /\ ToSet(c) = ToSet(published[p]) \cup ToSet(b) /\ Ascending(c)
  BY <1>1, <1>2, Concatenated, AscendingOn
<1>4. CASE fetching
  <2>1. published' = [published EXCEPT ![p] = c]
    BY <1>2, <1>4 DEF PushBatch
  <2> QED
    BY <1>1, <1>3, <1>4, <2>1
<1>5. CASE ~fetching
  BY <1>1, <1>5 DEF PushBatch
<1> QED
  BY <1>4, <1>5

\* What a step on the open stream of thread w may do: the stream becomes s, the
\* watermark m; H is what is then held of it and R what is still to come.
OpenMove(w, p, s, m, H, R) ==
  /\ p = stream[w].pv /\ fpc[w] = "fetch"
  /\ s \in Streams /\ s.pv = p /\ stream' = [stream EXCEPT ![w] = s]
  /\ m \in Int /\ mark' = [mark EXCEPT ![w] = [mark[w] EXCEPT ![p] = m]]
  /\ UNCHANGED <<control, times, shared, fpc, window, completions, broken>>
  /\ published' \in [PVs -> Seq(Int)] /\ (\A q \in PVs : q # p => published'[q] = published[q])
  /\ Ascending(published'[p]) /\ ToSet(published'[p]) \subseteq due
  /\ s.chunk = <<>> \/ s.pending = <<>>
  /\ conf.perBatch = 0 => s.pending = <<>>
  /\ conf.perBatch # 0 => s.chunk = <<>>
  /\ Ascending(s.chunk) /\ Ascending(s.pending) /\ Ascending(s.rest)
  /\ H = ToSet(s.chunk) \cup ToSet(s.pending) /\ R = ToSet(s.rest)
  /\ \A x \in ToSet(published'[p]) \cup H : x <= m
  /\ \A x \in ToSet(published'[p]), y \in H : x < y
  /\ H \cup R \subseteq due
  /\ ~TailMode => \A x \in R : m < x
  /\ m = mark[w][p] \/ m \in due
  /\ fetching => \A t \in ToSet(published[p]) \cup Held(w) \cup Rest(w) :
                   t \in broken[p] \cup ToSet(published'[p]) \cup H \cup R
  /\ fetching /\ TailMode => \A t \in due :
                   t <= m => t \in broken[p] \cup ToSet(published'[p]) \cup H

\* Such a step keeps the invariant.
LEMMA OpenStep ==
  ASSUME ReaderInv, NEW w \in Threads, NEW p, NEW s, NEW m, NEW H, NEW R, OpenMove(w, p, s, m, H, R)
  PROVE  ReaderInv'
<1> /\ p = stream[w].pv /\ fpc[w] = "fetch"
    /\ s \in Streams /\ s.pv = p /\ stream' = [stream EXCEPT ![w] = s]
    /\ m \in Int /\ mark' = [mark EXCEPT ![w] = [mark[w] EXCEPT ![p] = m]]
    /\ UNCHANGED <<control, times, shared, fpc, window, completions, broken>>
    /\ published' \in [PVs -> Seq(Int)] /\ (\A q \in PVs : q # p => published'[q] = published[q])
    /\ Ascending(published'[p]) /\ ToSet(published'[p]) \subseteq due
    /\ s.chunk = <<>> \/ s.pending = <<>>
    /\ conf.perBatch = 0 => s.pending = <<>>
    /\ conf.perBatch # 0 => s.chunk = <<>>
    /\ Ascending(s.chunk) /\ Ascending(s.pending) /\ Ascending(s.rest)
    /\ H = ToSet(s.chunk) \cup ToSet(s.pending) /\ R = ToSet(s.rest)
    /\ \A x \in ToSet(published'[p]) \cup H : x <= m
    /\ \A x \in ToSet(published'[p]), y \in H : x < y
    /\ H \cup R \subseteq due
    /\ ~TailMode => \A x \in R : m < x
    /\ m = mark[w][p] \/ m \in due
    /\ fetching => \A t \in ToSet(published[p]) \cup Held(w) \cup Rest(w) :
                     t \in broken[p] \cup ToSet(published'[p]) \cup H \cup R
    /\ fetching /\ TailMode => \A t \in due :
                     t <= m => t \in broken[p] \cup ToSet(published'[p]) \cup H
  BY DEF OpenMove
<1>0. /\ ReaderTypes /\ PlaceInv /\ RangeInv /\ CycleInv /\ StreamInv /\ OutInv /\ CoverInv /\ PassedInv
      /\ ReportInv
      /\ UNCHANGED <<conf, fetching, now, prevEnd, pvQueue, cycle, due>>
  BY DEF ReaderInv, control, times, shared
<1>1. Threads' = Threads /\ (TailMode' <=> TailMode) /\ (TailMode => w = 0 /\ Threads = {0})
  BY <1>0 DEF Threads, TailMode, CycleInv
<1>2. /\ p \in PVs /\ stream' \in [Threads -> Streams] /\ stream'[w] = s
      /\ \A v \in Threads : v # w => stream'[v] = stream[v]
  BY <1>0 DEF ReaderTypes, Streams
<1>3. /\ mark' \in [Threads -> [PVs -> Int]] /\ mark'[w][p] = m
      /\ \A v \in Threads, q \in PVs : v # w \/ q # p => mark'[v][q] = mark[v][q]
  BY <1>0, <1>2 DEF ReaderTypes
<1>4. /\ \A v \in Threads : v # w => Held(v)' = Held(v) /\ Rest(v)' = Rest(v)
      /\ Held(w)' = H /\ Rest(w)' = R
  BY <1>2 DEF Held, Rest
<1>5. \A v \in Threads : \A q : Open(v, q)' <=> Open(v, q)
  BY <1>0, <1>2 DEF Open
<1>6. Open(w, p) /\ \A v \in Threads : fpc[v] = "fetch" /\ v # w => stream[v].pv # p
  <2>1. \A v \in Threads : fpc[v] = "fetch" /\ stream[v].pv = p => v = w
    BY <1>0, <1>2 DEF PlaceInv, Open
  <2> QED
    BY <2>1 DEF Open
<1>10. ReaderTypes'
  BY <1>0, <1>1, <1>2, <1>3 DEF ReaderTypes, Streams
<1>11. PlaceInv'
  BY <1>0, <1>1, <1>5 DEF PlaceInv
<1>12. RangeInv'
  <2> SUFFICES ASSUME ~TailMode PROVE RangeInv!2'
    BY <1>1 DEF RangeInv
  <2>1. p \notin ToSet(pvQueue) /\ ToSet(pvQueue) \subseteq PVs
    <3>1. pvQueue \in Seq(PVs)
      BY <1>0 DEF ReaderTypes
    <3> QED
      BY <1>0, <1>6, <3>1 DEF PlaceInv, ToSet
  <2>2. \A q \in ToSet(pvQueue) : published'[q] = <<>> /\ \A v \in Threads : mark'[v][q] = -1
    BY <1>0, <1>3, <2>1 DEF RangeInv
  <2>3. ASSUME NEW v \in Threads, fpc[v] = "fetch", NEW x \in Rest(v)'
        PROVE  mark'[v][stream'[v].pv] < x
    <3>1. CASE v = w
      BY <1>2, <1>3, <1>4, <3>1
    <3>2. CASE v # w
      <4>1. x \in Rest(v) /\ stream'[v] = stream[v] /\ stream[v].pv \in PVs
        BY <1>0, <1>2, <1>4, <3>2 DEF ReaderTypes
      <4> QED
        BY <1>0, <1>3, <2>3, <3>2, <4>1 DEF RangeInv
    <3> QED
      BY <3>1, <3>2
  <2> QED
    BY <1>0, <1>1, <2>2, <2>3 DEF RangeInv
<1>13. CycleInv'
  <2> SUFFICES ASSUME TailMode PROVE CycleInv!2'
    BY <1>1 DEF CycleInv
  <2>1. \A t \in due : t <= cycle.to
    BY <1>0 DEF CycleInv
  <2>2. \A q \in PVs : mark'[0][q] <= cycle.to /\ (mark'[0][q] = -1 \/ mark'[0][q] \in due)
    <3>1. m <= cycle.to /\ (m = -1 \/ m \in due)
      BY <1>0, <1>1, <1>2, <2>1 DEF CycleInv
    <3> QED
      BY <1>0, <1>1, <1>3, <3>1 DEF CycleInv
  <2>3. \A q \in PVs : \A x \in ToSet(published'[q]) : x <= mark'[0][q]
    BY <1>0, <1>1, <1>3 DEF CycleInv
  <2> QED
    BY <1>0, <1>1, <2>1, <2>2, <2>3 DEF CycleInv
<1>14. StreamInv'
  <2> SUFFICES ASSUME NEW v \in Threads, fpc[v] = "fetch" PROVE StreamInv!(v)!2'
    BY <1>0, <1>1 DEF StreamInv
  <2>1. CASE v # w
    <3>1. stream[v].pv \in PVs /\ stream[v].pv # p
      BY <1>0, <1>6, <2>1 DEF ReaderTypes
    <3>2. /\ published'[stream[v].pv] = published[stream[v].pv]
          /\ mark'[v][stream[v].pv] = mark[v][stream[v].pv]
      BY <1>3, <2>1, <3>1
    <3>3. stream'[v] = stream[v] /\ Held(v)' = Held(v) /\ Rest(v)' = Rest(v)
      BY <1>2, <1>4, <2>1
    <3>4. StreamInv!(v)!2
      BY <1>0 DEF StreamInv
    <3>5. due' = due /\ conf' = conf
      BY <1>0
    <3> QED
      BY <3>2, <3>3, <3>4, <3>5
  <2>2. CASE v = w
    BY <1>0, <1>2, <1>3, <1>4, <2>2 DEF StreamInv
  <2> QED
    BY <2>1, <2>2
<1>15. OutInv'
  BY <1>0 DEF OutInv
<1>16. CoverInv'
  <2> SUFFICES ASSUME fetching, NEW q \in PVs, NEW t \in due
               PROVE  \/ t \in broken[q] \cup ToSet(published'[q])
                      \/ \E v \in Threads : Open(v, q) /\ t \in (Held(v) \cup Rest(v))'
                      \/ Waits(q, t)
    BY <1>0, <1>1, <1>5 DEF CoverInv, Waits
  <2>1. CASE q = p
    <3>1. \/ t \in broken[p] \/ t \in ToSet(published[p])
          \/ t \in Held(w) \cup Rest(w)
          \/ Waits(p, t)
      BY <1>0, <1>2, <1>6, <2>1 DEF CoverInv, Open
    <3> QED
      BY <1>4, <1>6, <2>1, <3>1
  <2>2. CASE q # p
    <3>1. \A v \in Threads : Open(v, q) => v # w
      BY <2>2 DEF Open
    <3> QED
      BY <1>0, <1>4, <2>2, <3>1 DEF CoverInv
  <2> QED
    BY <2>1, <2>2
<1>17. PassedInv'
  <2> SUFFICES ASSUME fetching, TailMode, NEW q \in PVs, NEW t \in due, t <= mark'[0][q]
               PROVE  \/ t \in broken[q] \cup ToSet(published'[q])
                      \/ Open(0, q) /\ t \in Held(0)'
    BY <1>0, <1>1, <1>5 DEF PassedInv
  <2>1. CASE q = p
    BY <1>1, <1>3, <1>4, <1>6, <2>1
  <2>2. CASE q # p
    <3>1. ~Open(0, q) /\ t <= mark[0][q]
      BY <1>1, <1>3, <2>2 DEF Open
    <3> QED
      BY <1>0, <2>2, <3>1 DEF PassedInv
  <2> QED
    BY <2>1, <2>2
<1>18. ReportInv'
  <2>1. completions = 0
    BY <1>0 DEF ReportInv, ReaderTypes
  <2> QED
    BY <2>1 DEF ReportInv
<1> QED
  BY <1>10, <1>11, <1>12, <1>13, <1>14, <1>15, <1>16, <1>17, <1>18 DEF ReaderInv

\* The end of a stream: all it had has been pushed or is counted as broken.
LEMMA CloseStep ==
  ASSUME ReaderInv, NEW w \in Threads, NEW p, p = stream[w].pv, fpc[w] = "fetch",
         NEW s \in Streams, stream' = [stream EXCEPT ![w] = s], Goto(w, "loop"),
         UNCHANGED <<control, times, shared, window, mark, completions>>,
         published' \in [PVs -> Seq(Int)], \A q \in PVs : q # p => published'[q] = published[q],
         Ascending(published'[p]), ToSet(published'[p]) \subseteq due,
         ToSet(published'[p]) \subseteq ToSet(published[p]) \cup Held(w),
         broken' \in [PVs -> SUBSET Int], \A q \in PVs : q # p => broken'[q] = broken[q],
         fetching => \A t \in broken[p] \cup ToSet(published[p]) \cup Held(w) \cup Rest(w) :
                       t \in broken'[p] \cup ToSet(published'[p])
  PROVE  ReaderInv'
<1>0. /\ ReaderTypes /\ PlaceInv /\ RangeInv /\ CycleInv /\ StreamInv /\ OutInv /\ CoverInv /\ PassedInv
      /\ ReportInv
      /\ UNCHANGED <<conf, fetching, now, prevEnd, pvQueue, cycle, due>>
  BY DEF ReaderInv, control, times, shared
<1>1. "loop" \in Points
  BY DEF Points
<1>2. /\ fpc' \in [Threads -> Points] /\ fpc'[w] = "loop"
      /\ \A v \in Threads : v # w => fpc'[v] = fpc[v]
      /\ Threads' = Threads /\ (TailMode' <=> TailMode) /\ (TailMode => w = 0 /\ Threads = {0})
  BY <1>0, <1>1, Moved DEF CycleInv
<1>3. /\ p \in PVs /\ stream' \in [Threads -> Streams]
      /\ \A v \in Threads : v # w => stream'[v] = stream[v]
  BY <1>0 DEF ReaderTypes, Streams
<1>4. \A v \in Threads : v # w => Held(v)' = Held(v) /\ Rest(v)' = Rest(v)
  BY <1>3 DEF Held, Rest
<1>5. \A v \in Threads : \A q : Open(v, q)' <=> v # w /\ Open(v, q)
  BY <1>2, <1>3 DEF Open
<1>6. /\ Open(w, p) /\ \A v \in Threads : fpc[v] = "fetch" /\ v # w => stream[v].pv # p
      /\ \A q : Open(w, q) => q = p
  <2>1. \A v \in Threads : fpc[v] = "fetch" /\ stream[v].pv = p => v = w
    BY <1>0, <1>3 DEF PlaceInv, Open
  <2> QED
    BY <2>1 DEF Open
<1>7. \A x \in ToSet(published'[p]) : x <= mark[w][p]
  BY <1>0 DEF StreamInv
<1>10. ReaderTypes'
  BY <1>0, <1>2, <1>3 DEF ReaderTypes, Streams
<1>11. PlaceInv'
  BY <1>0, <1>2, <1>5 DEF PlaceInv
<1>12. RangeInv'
  <2> SUFFICES ASSUME ~TailMode PROVE RangeInv!2'
    BY <1>2 DEF RangeInv
  <2>1. p \notin ToSet(pvQueue) /\ ToSet(pvQueue) \subseteq PVs
    <3>1. pvQueue \in Seq(PVs)
      BY <1>0 DEF ReaderTypes
    <3> QED
      BY <1>0, <1>6, <3>1 DEF PlaceInv, ToSet
  <2>2. \A q \in ToSet(pvQueue) : published'[q] = <<>> /\ \A v \in Threads : mark[v][q] = -1
    BY <1>0, <2>1 DEF RangeInv
  <2>3. ASSUME NEW v \in Threads, fpc'[v] = "fetch", NEW x \in Rest(v)'
        PROVE  mark[v][stream'[v].pv] < x
    <3>1. v # w
      BY <1>2, <2>3
    <3>2. x \in Rest(v) /\ stream'[v] = stream[v] /\ fpc[v] = "fetch"
      BY <1>2, <1>3, <1>4, <2>3, <3>1
    <3> QED
      BY <1>0, <3>2 DEF RangeInv
  <2>4. \A v \in Threads : /\ fpc'[v] \in {"top", "loop", "fetch", "exit", "done"}
                           /\ fpc'[v] \in {"exit", "done"} => ~fetching \/ pvQueue = <<>>
    BY <1>0, <1>2 DEF RangeInv
  <2> QED
    BY <1>0, <1>2, <2>2, <2>3, <2>4 DEF RangeInv
<1>13. CycleInv'
  <2> SUFFICES ASSUME TailMode PROVE CycleInv!2'
    BY <1>2 DEF CycleInv
  <2>1. \A q \in PVs : \A x \in ToSet(published'[q]) : x <= mark[0][q]
    BY <1>0, <1>2, <1>7 DEF CycleInv
  <2> QED
    BY <1>0, <1>2, <2>1 DEF CycleInv, Within
<1>14. StreamInv'
  <2> SUFFICES ASSUME NEW v \in Threads, fpc'[v] = "fetch" PROVE StreamInv!(v)!2'
    BY <1>2 DEF StreamInv
  <2>1. v # w /\ fpc[v] = "fetch"
    BY <1>2
  <2>2. stream[v].pv \in PVs /\ stream[v].pv # p
    BY <1>0, <1>6, <2>1 DEF ReaderTypes
  <2>3. published'[stream[v].pv] = published[stream[v].pv] /\ mark' = mark
    BY <2>2
  <2>4. stream'[v] = stream[v] /\ Held(v)' = Held(v) /\ Rest(v)' = Rest(v)
    BY <1>3, <1>4, <2>1
  <2>5. StreamInv!(v)!2
    BY <1>0, <2>1 DEF StreamInv
  <2>6. due' = due /\ conf' = conf
    BY <1>0
  <2> QED
    BY <2>3, <2>4, <2>5, <2>6
<1>15. OutInv'
  BY <1>0 DEF OutInv
<1>16. CoverInv'
  <2> SUFFICES ASSUME fetching, NEW q \in PVs, NEW t \in due
               PROVE  \/ t \in broken'[q] \cup ToSet(published'[q])
                      \/ \E v \in Threads : v # w /\ Open(v, q) /\ t \in Held(v) \cup Rest(v)
                      \/ Waits(q, t)
    <3>1. \A q, t : Waits(q, t) => Waits(q, t)'
      BY <1>0, <1>2 DEF Waits
    <3> QED
      BY <1>0, <1>2, <1>4, <1>5, <3>1 DEF CoverInv
  <2>1. CASE q = p
    <3>1. \/ t \in broken[p] \/ t \in ToSet(published[p])
          \/ t \in Held(w) \cup Rest(w)
          \/ Waits(p, t)
      BY <1>0, <1>3, <1>6, <2>1 DEF CoverInv, Open
    <3> QED
      BY <2>1, <3>1
  <2>2. CASE q # p
    <3>1. \A v \in Threads : Open(v, q) => v # w
      BY <1>6, <2>2
    <3>2. broken'[q] = broken[q] /\ published'[q] = published[q]
      BY <2>2
    <3> QED
      BY <1>0, <3>1, <3>2 DEF CoverInv
  <2> QED
    BY <2>1, <2>2
<1>17. PassedInv'
  <2> SUFFICES ASSUME fetching, TailMode, NEW q \in PVs, NEW t \in due, t <= mark[0][q]
               PROVE  t \in broken'[q] \cup ToSet(published'[q])
    BY <1>0, <1>2 DEF PassedInv
  <2>1. t \in broken[q] \cup ToSet(published[q]) \/ (Open(0, q) /\ t \in Held(0))
    BY <1>0 DEF PassedInv
  <2>2. CASE q = p
    BY <1>2, <2>1, <2>2
  <2>3. CASE q # p
    BY <1>2, <1>6, <2>1, <2>3
  <2> QED
    BY <2>2, <2>3
<1>18. ReportInv'
  <2>1. completions = 0
    BY <1>0 DEF ReportInv, ReaderTypes
  <2> QED
    BY <2>1 DEF ReportInv
<1> QED
  BY <1>10, <1>11, <1>12, <1>13, <1>14, <1>15, <1>16, <1>17, <1>18 DEF ReaderInv

\* A stream that is open: its parts, and what is known of them.
LEMMA StreamFacts ==
  ASSUME ReaderInv, NEW w \in Threads, fpc[w] = "fetch"
  PROVE  /\ stream[w] \in Streams /\ stream[w].pv \in PVs /\ stream[w].rest \in Seq(Int)
         /\ stream[w].chunk \in Seq(Int) /\ stream[w].pending \in Seq(Int)
         /\ mark[w][stream[w].pv] \in Int
         /\ StreamInv!(w)!2
         /\ mark = [mark EXCEPT ![w] = [mark[w] EXCEPT ![stream[w].pv] = mark[w][stream[w].pv]]]
<1>1. ReaderTypes /\ StreamInv
  BY DEF ReaderInv
<1>2. stream[w] \in Streams /\ mark \in [Threads -> [PVs -> Int]] /\ mark[w] \in [PVs -> Int]
  BY <1>1 DEF ReaderTypes, Streams
<1>3. /\ stream[w].pv \in PVs /\ stream[w].rest \in Seq(Int)
      /\ stream[w].chunk \in Seq(Int) /\ stream[w].pending \in Seq(Int)
  BY <1>2 DEF Streams
<1>4. StreamInv!(w)!2
  BY <1>1 DEF StreamInv
<1>5. mark[w] = [mark[w] EXCEPT ![stream[w].pv] = mark[w][stream[w].pv]]
  BY <1>2, <1>3
<1>6. mark = [mark EXCEPT ![w] = [mark[w] EXCEPT ![stream[w].pv] = mark[w][stream[w].pv]]]
  BY <1>2, <1>5
<1> QED
  BY <1>2, <1>3, <1>4, <1>6

\* The end of a complete stream.
LEMMA EndStep ==
  ASSUME ReaderInv, NEW w \in Threads, EndFetch(w)
  PROVE  ReaderInv'
<1>0. /\ ReaderTypes /\ OutInv /\ fpc[w] = "fetch" /\ stream[w].rest = <<>>
      /\ PushBatch(stream[w].pv, stream[w].chunk \o stream[w].pending)
      /\ stream' = [stream EXCEPT ![w] = Stream(stream[w].pv, <<>>, <<>>, <<>>)] /\ Goto(w, "loop")
      /\ UNCHANGED <<control, times, shared, window, mark, completions, broken>>
  BY DEF ReaderInv, EndFetch, Here
<1>1. /\ stream[w].pv \in PVs /\ stream[w].chunk \in Seq(Int) /\ stream[w].pending \in Seq(Int)
      /\ StreamInv!(w)!2
  BY <1>0, StreamFacts
<1>2. PICK b : b = stream[w].chunk \o stream[w].pending
  OBVIOUS
<1>3. b \in Seq(Int) /\ ToSet(b) = Held(w) /\ Ascending(b)
  <2>1. b \in Seq(Int) /\ ToSet(b) = Held(w)
    BY <1>1, <1>2, Concatenated DEF Held
  <2>2. b = stream[w].chunk \/ b = stream[w].pending
    <3>1. stream[w].chunk = <<>> \/ stream[w].pending = <<>>
      BY <1>1
    <3> QED
      BY <1>1, <1>2, <3>1, WithNothing
  <2>3. Ascending(stream[w].chunk) /\ Ascending(stream[w].pending)
    BY <1>1
  <2> QED
    BY <2>1, <2>2, <2>3
<1>4. Rest(w) = {}
  BY <1>0, NoElement DEF Rest
<1>5. /\ published' \in [PVs -> Seq(Int)]
      /\ \A q \in PVs : q # stream[w].pv => published'[q] = published[q]
      /\ Ascending(published'[stream[w].pv]) /\ ToSet(published'[stream[w].pv]) \subseteq due
      /\ ToSet(published'[stream[w].pv]) \subseteq ToSet(published[stream[w].pv]) \cup Held(w)
      /\ fetching => ToSet(published'[stream[w].pv]) = ToSet(published[stream[w].pv]) \cup Held(w)
  <2>1. PushBatch(stream[w].pv, b) /\ ReaderTypes /\ OutInv
    BY <1>0, <1>2
  <2>2. ToSet(b) \subseteq due /\ \A x \in ToSet(published[stream[w].pv]), y \in ToSet(b) : x < y
    BY <1>1, <1>3
  <2>3. b \in Seq(Int) /\ Ascending(b) /\ stream[w].pv \in PVs
    BY <1>1, <1>3
  <2>4. /\ published' \in [PVs -> Seq(Int)]
        /\ \A q \in PVs : q # stream[w].pv => published'[q] = published[q]
        /\ Ascending(published'[stream[w].pv]) /\ ToSet(published'[stream[w].pv]) \subseteq due
        /\ ToSet(published'[stream[w].pv]) \subseteq ToSet(published[stream[w].pv]) \cup ToSet(b)
        /\ fetching => ToSet(published'[stream[w].pv]) = ToSet(published[stream[w].pv]) \cup ToSet(b)
    BY <2>1, <2>2, <2>3, Pushed
  <2> QED
    BY <1>3, <2>4
<1>6. PICK s : s = Stream(stream[w].pv, <<>>, <<>>, <<>>)
  OBVIOUS
<1>7. s \in Streams
  BY <1>1, <1>6 DEF Stream, Streams
<1>8. broken' \in [PVs -> SUBSET Int] /\ broken' = broken
  BY <1>0 DEF ReaderTypes
<1> QED
  BY <1>0, <1>4, <1>5, <1>6, <1>7, <1>8, CloseStep

\* A stream that breaks.
LEMMA BreakStep ==
  ASSUME ReaderInv, NEW w \in Threads, FetchFails(w)
  PROVE  ReaderInv'
<1> PICK lost : lost = Rest(w) \cup ToSet(stream[w].chunk)
  OBVIOUS
<1>0. /\ ReaderTypes /\ OutInv /\ fpc[w] = "fetch" /\ fetching
      /\ PushBatch(stream[w].pv, stream[w].pending)
      /\ stream' = [stream EXCEPT ![w] = Stream(stream[w].pv, <<>>, <<>>, <<>>)] /\ Goto(w, "loop")
      /\ broken' = [broken EXCEPT ![stream[w].pv] = broken[stream[w].pv] \cup lost]
      /\ UNCHANGED <<control, times, shared, window, mark, completions>>
  BY DEF ReaderInv, FetchFails, Here, Rest
<1>1. /\ stream[w].pv \in PVs /\ stream[w].pending \in Seq(Int) /\ due \subseteq Int
      /\ StreamInv!(w)!2
  BY <1>0, StreamFacts DEF ReaderTypes
<1>2. ToSet(stream[w].pending) \subseteq Held(w) /\ Held(w) \subseteq due
      /\ Held(w) \subseteq lost \cup ToSet(stream[w].pending) /\ Rest(w) \subseteq lost /\ lost \subseteq due
  BY <1>1 DEF Held
<1>3. /\ published' \in [PVs -> Seq(Int)]
      /\ \A q \in PVs : q # stream[w].pv => published'[q] = published[q]
      /\ Ascending(published'[stream[w].pv]) /\ ToSet(published'[stream[w].pv]) \subseteq due
      /\ ToSet(published'[stream[w].pv]) = ToSet(published[stream[w].pv]) \cup ToSet(stream[w].pending)
  <2>1. PushBatch(stream[w].pv, stream[w].pending) /\ ReaderTypes /\ OutInv
    BY <1>0
  <2>2. /\ ToSet(stream[w].pending) \subseteq due
        /\ \A x \in ToSet(published[stream[w].pv]), y \in ToSet(stream[w].pending) : x < y
    BY <1>1, <1>2
  <2>3. stream[w].pending \in Seq(Int) /\ Ascending(stream[w].pending) /\ stream[w].pv \in PVs
    BY <1>1
  <2>b. PICK b : b = stream[w].pending
    OBVIOUS
  <2>4. /\ published' \in [PVs -> Seq(Int)]
        /\ \A q \in PVs : q # stream[w].pv => published'[q] = published[q]
        /\ Ascending(published'[stream[w].pv]) /\ ToSet(published'[stream[w].pv]) \subseteq due
        /\ fetching => ToSet(published'[stream[w].pv]) = ToSet(published[stream[w].pv]) \cup ToSet(b)
    <3>1. PushBatch(stream[w].pv, b) /\ b \in Seq(Int) /\ Ascending(b) /\ ToSet(b) \subseteq due
          /\ \A x \in ToSet(published[stream[w].pv]), y \in ToSet(b) : x < y
      BY <2>1, <2>2, <2>3, <2>b
    <3> QED
      BY <2>1, <2>3, <3>1, Pushed
  <2> QED
    BY <1>0, <2>b, <2>4
<1>4. PICK s : s = Stream(stream[w].pv, <<>>, <<>>, <<>>)
  OBVIOUS
<1>5. s \in Streams
  BY <1>1, <1>4 DEF Stream, Streams
<1>6. /\ broken' \in [PVs -> SUBSET Int] /\ \A q \in PVs : q # stream[w].pv => broken'[q] = broken[q]
      /\ broken'[stream[w].pv] = broken[stream[w].pv] \cup lost
  BY <1>0, <1>1, <1>2 DEF ReaderTypes
<1> QED
  BY <1>0, <1>2, <1>3, <1>4, <1>5, <1>6, CloseStep

\* The end of a chunk.
LEMMA ChunkStep ==
  ASSUME ReaderInv, NEW w \in Threads, FinalizeChunk(w)
  PROVE  ReaderInv'
<1>p. PICK p : p = stream[w].pv
  OBVIOUS
<1>b. PICK b : b = stream[w].chunk
  OBVIOUS
<1>s. PICK s : s = [pv |-> p, rest |-> stream[w].rest, chunk |-> <<>>, pending |-> <<>>]
  OBVIOUS
<1>0. /\ ReaderTypes /\ OutInv /\ PassedInv /\ CycleInv /\ fpc[w] = "fetch" /\ b # <<>> /\ PushBatch(p, b)
      /\ stream' = [stream EXCEPT ![w] = Stream(p, stream[w].rest, <<>>, stream[w].pending)]
      /\ UNCHANGED <<control, times, shared, fpc, window, mark, completions, broken>>
  BY <1>p, <1>b DEF ReaderInv, FinalizeChunk, Here
<1>1. /\ p \in PVs /\ stream[w].rest \in Seq(Int) /\ b \in Seq(Int) /\ mark[w][p] \in Int
      /\ mark' = [mark EXCEPT ![w] = [mark[w] EXCEPT ![p] = mark[w][p]]]
      /\ StreamInv!(w)!2
  BY <1>0, <1>p, <1>b, StreamFacts
<1>2. /\ stream[w].pending = <<>> /\ Held(w) = ToSet(b) /\ ToSet(b) \subseteq due /\ Rest(w) \subseteq due
      /\ Ascending(b) /\ Ascending(stream[w].rest) /\ conf.perBatch = 0
      /\ \A x \in ToSet(published[p]), y \in ToSet(b) : x < y
      /\ \A x \in ToSet(published[p]) \cup ToSet(b) : x <= mark[w][p]
  BY <1>0, <1>1, <1>p, <1>b, NoElement DEF Held
<1>3. /\ published' \in [PVs -> Seq(Int)] /\ \A q \in PVs : q # p => published'[q] = published[q]
      /\ Ascending(published'[p]) /\ ToSet(published'[p]) \subseteq due
      /\ ToSet(published'[p]) \subseteq ToSet(published[p]) \cup ToSet(b)
      /\ fetching => ToSet(published'[p]) = ToSet(published[p]) \cup ToSet(b)
  BY <1>0, <1>1, <1>2, Pushed
<1>4. /\ s \in Streams /\ s.pv = p /\ s.chunk = <<>> /\ s.pending = <<>> /\ s.rest = stream[w].rest
      /\ stream' = [stream EXCEPT ![w] = s]
  BY <1>0, <1>1, <1>2, <1>s DEF Stream, Streams
<1>H. PICK H, R : H = {} /\ R = Rest(w)
  OBVIOUS
<1>5. H = ToSet(s.chunk) \cup ToSet(s.pending) /\ R = ToSet(s.rest)
  BY <1>4, <1>H, NoElement DEF Rest
<1>6. ~TailMode => \A x \in R : mark[w][p] < x
  BY <1>0, <1>p, <1>H DEF ReaderInv, RangeInv
<1>7. fetching => \A t \in ToSet(published[p]) \cup Held(w) \cup Rest(w) :
                       t \in broken[p] \cup ToSet(published'[p]) \cup H \cup R
  BY <1>2, <1>3, <1>H
<1>8. ASSUME fetching, TailMode, NEW t \in due, t <= mark[w][p]
      PROVE  t \in broken[p] \cup ToSet(published'[p])
  <2>1. w = 0
    BY <1>0, <1>8 DEF CycleInv
  <2>2. t \in broken[p] \cup ToSet(published[p]) \/ t \in Held(0)
    BY <1>0, <1>1, <1>8, <2>1 DEF PassedInv
  <2> QED
    BY <1>2, <1>3, <1>8, <2>1, <2>2
<1>9. PICK m : m = mark[w][p]
  OBVIOUS
<1>10. /\ m \in Int /\ mark' = [mark EXCEPT ![w] = [mark[w] EXCEPT ![p] = m]]
       /\ \A x \in ToSet(published'[p]) \cup H : x <= m
       /\ \A x \in ToSet(published'[p]), y \in H : x < y
       /\ ~TailMode => \A x \in R : m < x
       /\ m = mark[w][p] \/ m \in due
  BY <1>1, <1>2, <1>3, <1>6, <1>9, <1>H
<1>11. fetching /\ TailMode => \A t \in due : t <= m => t \in broken[p] \cup ToSet(published'[p]) \cup H
  BY <1>8, <1>9
<1>12. H \cup R \subseteq due /\ Ascending(s.chunk) /\ Ascending(s.pending) /\ Ascending(s.rest)
  BY <1>2, <1>4, <1>H, NoElement
<1>13. /\ s.chunk = <<>> \/ s.pending = <<>>
       /\ conf.perBatch = 0 => s.pending = <<>>
       /\ conf.perBatch # 0 => s.chunk = <<>>
  BY <1>4
<1>14. /\ p = stream[w].pv /\ fpc[w] = "fetch"
       /\ s \in Streams /\ s.pv = p /\ stream' = [stream EXCEPT ![w] = s]
       /\ UNCHANGED <<control, times, shared, fpc, window, completions, broken>>
       /\ published' \in [PVs -> Seq(Int)] /\ \A q \in PVs : q # p => published'[q] = published[q]
       /\ Ascending(published'[p]) /\ ToSet(published'[p]) \subseteq due
  BY <1>0, <1>3, <1>4, <1>p
<1>15. OpenMove(w, p, s, m, H, R)
  BY <1>5, <1>7, <1>10, <1>11, <1>12, <1>13, <1>14 DEF OpenMove
<1> QED
  BY <1>15, OpenStep

\* Up to t every sample of p that is due is accounted for, t being the next one.
UpTo(w, p, t) ==
  fetching /\ TailMode => \A u \in due :
    u <= t => u \in broken[p] \cup ToSet(published[p]) \cup Held(w) \cup {t}

\* The next sample of a stream.
LEMMA NextSample ==
  ASSUME ReaderInv, NEW w \in Threads, fpc[w] = "fetch", stream[w].rest # <<>>,
         NEW p, p = stream[w].pv, NEW t, t = Head(stream[w].rest)
  PROVE  /\ p \in PVs /\ t \in Int /\ t \in due /\ mark[w][p] \in Int
         /\ Tail(stream[w].rest) \in Seq(Int) /\ Ascending(Tail(stream[w].rest))
         /\ Rest(w) = {t} \cup ToSet(Tail(stream[w].rest)) /\ Rest(w) \subseteq due
         /\ \A x \in ToSet(Tail(stream[w].rest)) : t < x
         /\ ~Duplicate(w, t) => mark[w][p] < t
         /\ UpTo(w, p, t)
<1>0. /\ ReaderTypes /\ PlaceInv /\ RangeInv /\ CycleInv /\ CoverInv
  BY DEF ReaderInv
<1>1. /\ p \in PVs /\ stream[w].rest \in Seq(Int) /\ mark[w][p] \in Int /\ StreamInv!(w)!2
  BY StreamFacts
<1>2. Ascending(stream[w].rest) /\ Rest(w) \subseteq due
  BY <1>1
<1>3. /\ t \in Int /\ Tail(stream[w].rest) \in Seq(Int)
      /\ ToSet(stream[w].rest) = {t} \cup ToSet(Tail(stream[w].rest))
      /\ Ascending(Tail(stream[w].rest)) /\ \A x \in ToSet(Tail(stream[w].rest)) : t < x
  BY <1>1, <1>2, HeadAndTail
<1>4. Rest(w) = {t} \cup ToSet(Tail(stream[w].rest)) /\ t \in Rest(w)
  BY <1>3 DEF Rest
<1>5. ASSUME ~Duplicate(w, t) PROVE mark[w][p] < t
  <2>1. CASE TailMode
    BY <1>1, <1>3, <1>5, <2>1 DEF Duplicate
  <2>2. CASE ~TailMode
    BY <1>0, <1>4, <2>2 DEF RangeInv
  <2> QED
    BY <2>1, <2>2
<1>6. ASSUME fetching, TailMode, NEW u \in due, u <= t
      PROVE  u \in broken[p] \cup ToSet(published[p]) \cup Held(w) \cup {t}
  <2>1. w = 0 /\ Threads = {0}
    BY <1>0, <1>6 DEF CycleInv
  <2>2. Open(w, p)
    BY DEF Open
  <2>3. ~Waits(p, u)
    <3>1. p \notin ToSet(pvQueue)
      BY <1>0, <2>2 DEF PlaceInv
    <3> QED
      BY <1>6, <2>1, <3>1 DEF Waits
  <2>4. u \in broken[p] \cup ToSet(published[p]) \/ u \in Held(w) \cup Rest(w)
    BY <1>0, <1>1, <1>6, <2>1, <2>3 DEF CoverInv
  <2>5. u \in Int /\ ~(u \in ToSet(Tail(stream[w].rest)))
    <3>1. u \in Int
      BY <1>0 DEF ReaderTypes
    <3> QED
      BY <1>3, <1>6, <3>1
  <2> QED
    BY <1>4, <2>4, <2>5
<1>7. UpTo(w, p, t)
  BY <1>6 DEF UpTo
<1> QED
  BY <1>1, <1>2, <1>3, <1>4, <1>5, <1>7

\* What a sample t that is kept does: the stream becomes s, and the batch b goes
\* out with it or before it.
KeptMove(w, p, t, s, b, H) ==
  /\ fpc[w] = "fetch" /\ stream[w].rest # <<>>
  /\ p = stream[w].pv /\ t = Head(stream[w].rest) /\ ~Duplicate(w, t)
  /\ s \in Streams /\ s.pv = p /\ s.rest = Tail(stream[w].rest)
  /\ stream' = [stream EXCEPT ![w] = s]
  /\ mark' = [mark EXCEPT ![w] = [mark[w] EXCEPT ![p] = t]]
  /\ UNCHANGED <<control, times, shared, fpc, window, completions, broken>>
  /\ b \in Seq(Int) /\ Ascending(b) /\ PushBatch(p, b)
  /\ s.chunk = <<>> \/ s.pending = <<>>
  /\ conf.perBatch = 0 => s.pending = <<>>
  /\ conf.perBatch # 0 => s.chunk = <<>>
  /\ Ascending(s.chunk) /\ Ascending(s.pending)
  /\ H = ToSet(s.chunk) \cup ToSet(s.pending)
  /\ ToSet(b) \cup H = Held(w) \cup {t}
  /\ \A x \in ToSet(b), y \in H : x < y

\* Keeping a sample keeps the invariant.
LEMMA KeptStep ==
  ASSUME ReaderInv, NEW w \in Threads, NEW p, NEW t, NEW s, NEW b, NEW H, KeptMove(w, p, t, s, b, H)
  PROVE  ReaderInv'
<1>m. /\ fpc[w] = "fetch" /\ stream[w].rest # <<>>
      /\ p = stream[w].pv /\ t = Head(stream[w].rest)
  BY DEF KeptMove
<1>n. /\ p \in PVs /\ t \in Int /\ t \in due /\ mark[w][p] \in Int
      /\ Ascending(Tail(stream[w].rest))
      /\ Rest(w) = {t} \cup ToSet(Tail(stream[w].rest)) /\ Rest(w) \subseteq due
      /\ \A x \in ToSet(Tail(stream[w].rest)) : t < x
      /\ ~Duplicate(w, t) => mark[w][p] < t
      /\ UpTo(w, p, t)
  BY <1>m, NextSample
<1> /\ fpc[w] = "fetch" /\ stream[w].rest # <<>>
    /\ p = stream[w].pv /\ t = Head(stream[w].rest) /\ ~Duplicate(w, t)
    /\ s \in Streams /\ s.pv = p /\ s.rest = Tail(stream[w].rest)
    /\ stream' = [stream EXCEPT ![w] = s]
    /\ mark' = [mark EXCEPT ![w] = [mark[w] EXCEPT ![p] = t]]
    /\ UNCHANGED <<control, times, shared, fpc, window, completions, broken>>
    /\ b \in Seq(Int) /\ Ascending(b) /\ PushBatch(p, b)
    /\ s.chunk = <<>> \/ s.pending = <<>>
    /\ conf.perBatch = 0 => s.pending = <<>>
    /\ conf.perBatch # 0 => s.chunk = <<>>
    /\ Ascending(s.chunk) /\ Ascending(s.pending)
    /\ H = ToSet(s.chunk) \cup ToSet(s.pending)
    /\ ToSet(b) \cup H = Held(w) \cup {t}
    /\ \A x \in ToSet(b), y \in H : x < y
  BY DEF KeptMove
<1>0. ReaderTypes /\ OutInv
  BY DEF ReaderInv
<1>1. PICK R : R = ToSet(Tail(stream[w].rest))
  OBVIOUS
<1>2. /\ p \in PVs /\ t \in Int /\ t \in due /\ mark[w][p] \in Int /\ mark[w][p] < t
      /\ Ascending(s.rest) /\ Rest(w) = {t} \cup R /\ Rest(w) \subseteq due /\ \A x \in R : t < x
      /\ fetching /\ TailMode => \A u \in due :
              u <= t => u \in broken[p] \cup ToSet(published[p]) \cup Held(w) \cup {t}
  BY <1>1, <1>n DEF UpTo
<1>3. /\ Held(w) \subseteq due /\ due \subseteq Int
      /\ \A x \in ToSet(published[p]), y \in Held(w) : x < y
      /\ \A x \in ToSet(published[p]) \cup Held(w) : x <= mark[w][p]
  <2>1. StreamInv!(w)!2
    BY StreamFacts
  <2> QED
    BY <1>0, <2>1 DEF ReaderTypes
<1>4. /\ ToSet(b) \subseteq due /\ H \subseteq due /\ ToSet(published[p]) \subseteq Int
  BY <1>0, <1>2, <1>3 DEF OutInv
<1>5. \A x \in ToSet(published[p]), y \in Held(w) \cup {t} : x < y
  BY <1>2, <1>3, <1>4
<1>6. \A x \in ToSet(published[p]), y \in ToSet(b) \cup H : x < y
  BY <1>5
<1>7. /\ published' \in [PVs -> Seq(Int)] /\ \A q \in PVs : q # p => published'[q] = published[q]
      /\ Ascending(published'[p]) /\ ToSet(published'[p]) \subseteq due
      /\ ToSet(published[p]) \subseteq ToSet(published'[p])
      /\ ToSet(published'[p]) \subseteq ToSet(published[p]) \cup ToSet(b)
      /\ fetching => ToSet(published'[p]) = ToSet(published[p]) \cup ToSet(b)
  BY <1>0, <1>2, <1>4, <1>6, Pushed
<1>8. \A x \in ToSet(published[p]) \cup Held(w) \cup {t} : x <= t
  BY <1>2, <1>3, <1>4
<1>9. \A x \in ToSet(published'[p]) \cup H : x <= t
  BY <1>7, <1>8
<1>10. \A x \in ToSet(published'[p]), y \in H : x < y
  BY <1>6, <1>7
<1>11. fetching => \A u \in ToSet(published[p]) \cup Held(w) \cup Rest(w) :
                       u \in broken[p] \cup ToSet(published'[p]) \cup H \cup R
  BY <1>2, <1>7
<1>12. fetching /\ TailMode => \A u \in due :
                       u <= t => u \in broken[p] \cup ToSet(published'[p]) \cup H
  BY <1>2, <1>7
<1>13. /\ H \cup R \subseteq due /\ R = ToSet(s.rest) /\ (~TailMode => \A x \in R : t < x)
       /\ t = mark[w][p] \/ t \in due
  BY <1>1, <1>2, <1>4
<1>14. OpenMove(w, p, s, t, H, R)
  BY <1>2, <1>7, <1>9, <1>10, <1>11, <1>12, <1>13 DEF OpenMove
<1> QED
  BY <1>14, OpenStep

\* A sample the previous window already delivered.
LEMMA DroppedStep ==
  ASSUME ReaderInv, NEW w \in Threads, fpc[w] = "fetch", stream[w].rest # <<>>,
         NEW p, p = stream[w].pv, NEW t, t = Head(stream[w].rest), Duplicate(w, t),
         NEW s \in Streams,
         s = [pv |-> p, rest |-> Tail(stream[w].rest), chunk |-> stream[w].chunk, pending |-> stream[w].pending],
         stream' = [stream EXCEPT ![w] = s],
         UNCHANGED <<control, times, shared, fpc, window, completions, broken, mark, published>>
  PROVE  ReaderInv'
<1>0. ReaderTypes /\ OutInv /\ CycleInv /\ PassedInv
  BY DEF ReaderInv
<1>1. PICK R, H, m : R = ToSet(Tail(stream[w].rest)) /\ H = Held(w) /\ m = mark[w][p]
  OBVIOUS
<1>2. /\ p \in PVs /\ t \in Int /\ t \in due /\ mark[w][p] \in Int
      /\ Ascending(Tail(stream[w].rest)) /\ Rest(w) = {t} \cup R /\ Rest(w) \subseteq due
  BY <1>1, NextSample
<1>3. /\ s.pv = p /\ s.rest = Tail(stream[w].rest)
      /\ s.chunk = stream[w].chunk /\ s.pending = stream[w].pending
  OBVIOUS
<1>4. /\ Held(w) \subseteq due
      /\ s.chunk = <<>> \/ s.pending = <<>>
      /\ Ascending(s.chunk) /\ Ascending(s.pending) /\ Ascending(s.rest)
      /\ conf.perBatch = 0 => s.pending = <<>>
      /\ conf.perBatch # 0 => s.chunk = <<>>
      /\ \A x \in ToSet(published[p]) \cup Held(w) : x <= mark[w][p]
      /\ \A x \in ToSet(published[p]), y \in Held(w) : x < y
      /\ mark = [mark EXCEPT ![w] = [mark[w] EXCEPT ![p] = mark[w][p]]]
  <2>1. StreamInv!(w)!2 /\ mark = [mark EXCEPT ![w] = [mark[w] EXCEPT ![p] = mark[w][p]]]
    BY StreamFacts
  <2> QED
    BY <1>2, <1>3, <2>1
<1>5. published \in [PVs -> Seq(Int)] /\ Ascending(published[p]) /\ ToSet(published[p]) \subseteq due
  BY <1>0, <1>2 DEF ReaderTypes, OutInv
<1>6. TailMode /\ t <= m /\ w = 0 /\ Open(0, p)
  BY <1>0, <1>1 DEF Duplicate, CycleInv, Open
<1>7. fetching => \A u \in due : u <= m => u \in broken[p] \cup ToSet(published[p]) \cup H
  BY <1>0, <1>1, <1>2, <1>6 DEF PassedInv
<1>8. fetching => \A u \in ToSet(published[p]) \cup Held(w) \cup Rest(w) :
                       u \in broken[p] \cup ToSet(published[p]) \cup H \cup R
  BY <1>1, <1>2, <1>6, <1>7
<1>9. published' = published /\ H = ToSet(s.chunk) \cup ToSet(s.pending) /\ R = ToSet(s.rest)
  BY <1>1, <1>3 DEF Held
<1>10. /\ \A x \in ToSet(published'[p]) \cup H : x <= m
       /\ \A x \in ToSet(published'[p]), y \in H : x < y
       /\ H \cup R \subseteq due
       /\ ~TailMode => \A x \in R : m < x
       /\ m = mark[w][p] \/ m \in due
       /\ m \in Int /\ mark' = [mark EXCEPT ![w] = [mark[w] EXCEPT ![p] = m]]
  <2>1. H \cup R \subseteq due
    BY <1>1, <1>2, <1>4
  <2>2. m \in Int /\ mark' = [mark EXCEPT ![w] = [mark[w] EXCEPT ![p] = m]] /\ m = mark[w][p]
    BY <1>1, <1>2, <1>4
  <2>3. /\ \A x \in ToSet(published'[p]) \cup H : x <= m
        /\ \A x \in ToSet(published'[p]), y \in H : x < y
    BY <1>1, <1>4, <1>9
  <2> QED
    BY <1>6, <2>1, <2>2, <2>3
<1>11. /\ fetching => \A u \in ToSet(published[p]) \cup Held(w) \cup Rest(w) :
                       u \in broken[p] \cup ToSet(published'[p]) \cup H \cup R
       /\ fetching /\ TailMode => \A u \in due :
                       u <= m => u \in broken[p] \cup ToSet(published'[p]) \cup H
       /\ published' \in [PVs -> Seq(Int)] /\ \A q \in PVs : q # p => published'[q] = published[q]
       /\ Ascending(published'[p]) /\ ToSet(published'[p]) \subseteq due
  BY <1>5, <1>7, <1>8, <1>9
<1>12. UNCHANGED <<control, times, shared, fpc, window, completions, broken>>
  OBVIOUS
<1>13. OpenMove(w, p, s, m, H, R)
  BY <1>3, <1>4, <1>9, <1>10, <1>11, <1>12 DEF OpenMove
<1> QED
  BY <1>13, OpenStep

\* What becomes of the pending batch d when t is added: k stays, b goes out.
Batches(d, t, wide, full, k, b) ==
  LET kept == IF wide THEN <<t>> ELSE Append(d, t)
      out  == IF wide THEN d ELSE <<>>
  IN  /\ k = IF full THEN <<>> ELSE kept
      /\ b = IF full THEN out \o kept ELSE out

\* Nothing is lost or put out of order by it.
LEMMA Batched ==
  ASSUME NEW d \in Seq(Int), NEW t \in Int, Ascending(d), \A x \in ToSet(d) : x < t,
         NEW wide \in BOOLEAN, NEW full \in BOOLEAN, NEW k, NEW b, Batches(d, t, wide, full, k, b)
  PROVE  /\ k \in Seq(Int) /\ b \in Seq(Int) /\ Ascending(k) /\ Ascending(b)
         /\ ToSet(b) \cup ToSet(k) = ToSet(d) \cup {t}
         /\ \A x \in ToSet(b), y \in ToSet(k) : x < y
<1>1. /\ Append(d, t) = d \o <<t>> /\ <<t>> \in Seq(Int) /\ ToSet(<<t>>) = {t} /\ Ascending(<<t>>)
      /\ Append(d, t) \in Seq(Int) /\ ToSet(Append(d, t)) = ToSet(d) \cup {t}
  BY Appended
<1>2. Ascending(d \o <<t>>)
  BY <1>1, AscendingOn
<1>3. <<>> \o Append(d, t) = Append(d, t)
  BY <1>1, WithNothing
<1>4. <<>> \in Seq(Int) /\ ToSet(<<>>) = {} /\ Ascending(<<>>)
  BY NoElement
<1>5. CASE full
  <2>1. k = <<>> /\ b = d \o <<t>>
    <3>1. CASE wide
      BY <1>5, <3>1 DEF Batches
    <3>2. CASE ~wide
      BY <1>1, <1>3, <1>5, <3>2 DEF Batches
    <3> QED
      BY <3>1, <3>2
  <2> QED
    BY <1>1, <1>2, <1>4, <2>1
<1>6. CASE ~full /\ wide
  <2>1. k = <<t>> /\ b = d
    BY <1>6 DEF Batches
  <2> QED
    BY <1>1, <2>1
<1>7. CASE ~full /\ ~wide
  <2>1. k = Append(d, t) /\ b = <<>>
    BY <1>7 DEF Batches
  <2>2. ToSet(b) \cup ToSet(k) = ToSet(d) \cup {t}
    BY <1>1, <1>4, <2>1
  <2> QED
    BY <1>1, <1>2, <1>4, <2>1, <2>2
<1> QED
  BY <1>5, <1>6, <1>7

\* One sample of the stream.
LEMMA ParseStep ==
  ASSUME ReaderInv, NEW w \in Threads, Parse(w)
  PROVE  ReaderInv'
<1>p. PICK p, t, c, d, r : /\ p = stream[w].pv /\ t = Head(stream[w].rest) /\ c = stream[w].chunk
                           /\ d = stream[w].pending /\ r = Tail(stream[w].rest)
  OBVIOUS
<1>0. /\ fpc[w] = "fetch" /\ stream[w].rest # <<>>
      /\ UNCHANGED <<control, times, shared, fpc, window, completions, broken>>
  BY DEF Parse, Here
<1>1. /\ p \in PVs /\ t \in Int /\ t \in due /\ mark[w][p] \in Int /\ r \in Seq(Int)
      /\ ~Duplicate(w, t) => mark[w][p] < t
  BY <1>0, <1>p, NextSample
<1>2. /\ c \in Seq(Int) /\ d \in Seq(Int) /\ Held(w) = ToSet(c) \cup ToSet(d)
      /\ Ascending(c) /\ Ascending(d) /\ Held(w) \subseteq due
      /\ \A x \in ToSet(published[p]) \cup Held(w) : x <= mark[w][p]
      /\ conf.perBatch = 0 => d = <<>>
      /\ conf.perBatch # 0 => c = <<>>
  <2>1. stream[w].chunk \in Seq(Int) /\ stream[w].pending \in Seq(Int) /\ StreamInv!(w)!2
    BY <1>0, StreamFacts
  <2> QED
    BY <1>p, <2>1 DEF Held
<1>3. ASSUME ~Duplicate(w, t) PROVE \A x \in Held(w) : x < t
  <2>1. due \subseteq Int
    BY DEF ReaderInv, ReaderTypes
  <2>2. mark[w][p] < t /\ mark[w][p] \in Int /\ t \in Int
    BY <1>1, <1>3
  <2>3. \A x \in Held(w) : x \in Int /\ x <= mark[w][p]
    BY <1>2, <2>1
  <2> QED
    BY <2>2, <2>3
<1>4. CASE /\ Duplicate(w, t) /\ UNCHANGED <<published, mark>>
           /\ stream' = [stream EXCEPT ![w] = Stream(p, r, c, d)]
  <2>1. PICK s : s = Stream(p, r, c, d)
    OBVIOUS
  <2>2. s \in Streams /\ s = [pv |-> p, rest |-> r, chunk |-> c, pending |-> d]
    BY <1>1, <1>2, <2>1 DEF Stream, Streams
  <2>3. s = [pv |-> p, rest |-> Tail(stream[w].rest), chunk |-> stream[w].chunk, pending |-> stream[w].pending]
    BY <1>p, <2>2
  <2>4. /\ stream' = [stream EXCEPT ![w] = s] /\ p = stream[w].pv /\ t = Head(stream[w].rest)
        /\ UNCHANGED <<control, times, shared, fpc, window, completions, broken, mark, published>>
    BY <1>0, <1>4, <1>p, <2>1
  <2> QED
    BY <1>0, <1>4, <2>2, <2>3, <2>4, DroppedStep
<1>5. CASE /\ ~Duplicate(w, t) /\ conf.perBatch = 0 /\ UNCHANGED published
           /\ stream' = [stream EXCEPT ![w] = Stream(p, r, Append(c, t), d)]
           /\ mark' = [mark EXCEPT ![w] = [mark[w] EXCEPT ![p] = t]]
  <2>1. PICK s, b, H : s = Stream(p, r, Append(c, t), d) /\ b = <<>> /\ H = Held(w) \cup {t}
    OBVIOUS
  <2>2. d = <<>> /\ Held(w) = ToSet(c)
    BY <1>2, <1>5, NoElement
  <2>3. /\ Append(c, t) \in Seq(Int) /\ ToSet(Append(c, t)) = ToSet(c) \cup {t}
        /\ Append(c, t) = c \o <<t>> /\ <<t>> \in Seq(Int) /\ ToSet(<<t>>) = {t} /\ Ascending(<<t>>)
    BY <1>1, <1>2, Appended
  <2>4. Ascending(Append(c, t))
    <3>1. \A x \in ToSet(c), y \in ToSet(<<t>>) : x < y
      BY <1>3, <1>5, <2>2, <2>3
    <3> QED
      BY <1>2, <2>3, <3>1, AscendingOn
  <2>5. s \in Streams /\ s.pv = p /\ s.rest = r /\ s.chunk = Append(c, t) /\ s.pending = <<>>
    BY <1>1, <1>2, <2>1, <2>2, <2>3 DEF Stream, Streams
  <2>6. /\ H = ToSet(s.chunk) \cup ToSet(s.pending) /\ ToSet(b) \cup H = Held(w) \cup {t}
        /\ \A x \in ToSet(b), y \in H : x < y
        /\ b \in Seq(Int) /\ Ascending(b)
    <3>1. ToSet(b) = {} /\ b \in Seq(Int) /\ Ascending(b) /\ ToSet(s.pending) = {}
      BY <2>1, <2>5, NoElement
    <3>2. H = ToSet(s.chunk)
      BY <2>1, <2>2, <2>3, <2>5
    <3> QED
      BY <2>1, <3>1, <3>2
  <2>7. PushBatch(p, b)
    <3>1. published \in [PVs -> Seq(Int)] /\ published[p] \in Seq(Int)
      BY <1>1 DEF ReaderInv, ReaderTypes
    <3>2. published[p] \o <<>> = published[p]
      BY <3>1, WithNothing
    <3>3. published = [published EXCEPT ![p] = published[p] \o <<>>]
      BY <1>1, <3>1, <3>2
    <3> QED
      BY <1>5, <2>1, <3>3 DEF PushBatch
  <2>8. /\ p = stream[w].pv /\ t = Head(stream[w].rest) /\ s.rest = Tail(stream[w].rest)
        /\ stream' = [stream EXCEPT ![w] = s]
        /\ mark' = [mark EXCEPT ![w] = [mark[w] EXCEPT ![p] = t]]
    BY <1>5, <1>p, <2>1, <2>5
  <2>9. /\ s.chunk = <<>> \/ s.pending = <<>>
        /\ conf.perBatch = 0 => s.pending = <<>>
        /\ conf.perBatch # 0 => s.chunk = <<>>
        /\ Ascending(s.chunk) /\ Ascending(s.pending)
    BY <1>5, <2>4, <2>5, NoElement
  <2>10. KeptMove(w, p, t, s, b, H)
    BY <1>0, <1>5, <2>5, <2>6, <2>7, <2>8, <2>9 DEF KeptMove
  <2> QED
    BY <2>10, KeptStep
<1>6. ASSUME NEW wide \in BOOLEAN, NEW full \in BOOLEAN, NEW k, NEW b,
             Batches(d, t, wide, full, k, b),
             ~Duplicate(w, t), conf.perBatch # 0, PushBatch(p, b),
             stream' = [stream EXCEPT ![w] = Stream(p, r, c, k)],
             mark' = [mark EXCEPT ![w] = [mark[w] EXCEPT ![p] = t]]
      PROVE  ReaderInv'
  <2>1. PICK s, H : s = Stream(p, r, c, k) /\ H = ToSet(k)
    OBVIOUS
  <2>2. c = <<>> /\ Held(w) = ToSet(d)
    BY <1>2, <1>6, NoElement
  <2>3. /\ k \in Seq(Int) /\ b \in Seq(Int) /\ Ascending(k) /\ Ascending(b)
        /\ ToSet(b) \cup ToSet(k) = ToSet(d) \cup {t}
        /\ \A x \in ToSet(b), y \in ToSet(k) : x < y
    <3>1. \A x \in ToSet(d) : x < t
      BY <1>3, <1>6, <2>2
    <3>3. d \in Seq(Int) /\ t \in Int /\ Ascending(d)
      BY <1>1, <1>2
    <3> QED
      BY <1>6, <3>1, <3>3, Batched
  <2>4. s \in Streams /\ s.pv = p /\ s.rest = r /\ s.chunk = <<>> /\ s.pending = k
    BY <1>1, <1>2, <2>1, <2>2, <2>3 DEF Stream, Streams
  <2>5. /\ H = ToSet(s.chunk) \cup ToSet(s.pending) /\ ToSet(b) \cup H = Held(w) \cup {t}
        /\ \A x \in ToSet(b), y \in H : x < y
    BY <2>1, <2>2, <2>3, <2>4, NoElement
  <2>6. /\ p = stream[w].pv /\ t = Head(stream[w].rest) /\ s.rest = Tail(stream[w].rest)
        /\ stream' = [stream EXCEPT ![w] = s]
        /\ mark' = [mark EXCEPT ![w] = [mark[w] EXCEPT ![p] = t]]
    BY <1>6, <1>p, <2>1, <2>4
  <2>7. /\ s.chunk = <<>> \/ s.pending = <<>>
        /\ conf.perBatch = 0 => s.pending = <<>>
        /\ conf.perBatch # 0 => s.chunk = <<>>
        /\ Ascending(s.chunk) /\ Ascending(s.pending)
    BY <1>6, <2>3, <2>4, NoElement
  <2>8. KeptMove(w, p, t, s, b, H)
    BY <1>0, <1>6, <2>3, <2>4, <2>5, <2>6, <2>7 DEF KeptMove
  <2> QED
    BY <2>8, KeptStep
<1>7. CASE /\ ~Duplicate(w, t) /\ conf.perBatch # 0
           /\ \E wide, full \in BOOLEAN : \E k, b :
                /\ Batches(d, t, wide, full, k, b)
                /\ stream' = [stream EXCEPT ![w] = Stream(p, r, c, k)]
                /\ PushBatch(p, b)
           /\ mark' = [mark EXCEPT ![w] = [mark[w] EXCEPT ![p] = t]]
  BY <1>6, <1>7
<1>8. \/ /\ Duplicate(w, t) /\ UNCHANGED <<published, mark>>
         /\ stream' = [stream EXCEPT ![w] = Stream(p, r, c, d)]
      \/ /\ ~Duplicate(w, t) /\ conf.perBatch = 0 /\ UNCHANGED published
         /\ stream' = [stream EXCEPT ![w] = Stream(p, r, Append(c, t), d)]
         /\ mark' = [mark EXCEPT ![w] = [mark[w] EXCEPT ![p] = t]]
      \/ <1>7!1
  <2>1. PICK wide \in BOOLEAN : wide <=> TooWide(d, t)
    OBVIOUS
  <2>2. PICK full \in BOOLEAN : full <=> Len(IF wide THEN <<t>> ELSE Append(d, t)) >= conf.perBatch
    OBVIOUS
  <2>3. PICK k, b : /\ k = IF full THEN <<>> ELSE IF wide THEN <<t>> ELSE Append(d, t)
                    /\ b = IF full THEN (IF wide THEN d ELSE <<>>) \o (IF wide THEN <<t>> ELSE Append(d, t))
                           ELSE IF wide THEN d ELSE <<>>
    OBVIOUS
  <2>4. Batches(d, t, wide, full, k, b)
    BY <2>3 DEF Batches
  <2>5. CASE Duplicate(w, t)
    BY <1>p, <2>5 DEF Parse
  <2>6. CASE ~Duplicate(w, t) /\ conf.perBatch = 0
    BY <1>p, <2>6 DEF Parse
  <2>7. CASE ~Duplicate(w, t) /\ conf.perBatch # 0
    <3>1. /\ stream' = [stream EXCEPT ![w] = Stream(p, r, c, k)] /\ PushBatch(p, b)
          /\ mark' = [mark EXCEPT ![w] = [mark[w] EXCEPT ![p] = t]]
      BY <1>p, <2>1, <2>2, <2>3, <2>7 DEF Parse
    <3> QED
      BY <2>4, <2>7, <3>1
  <2> QED
    BY <2>5, <2>6, <2>7
<1> QED
  BY <1>4, <1>5, <1>7, <1>8

-----------------------------------------------------------------------------
(* The whole reader. *)

\* startWorkers() establishes the invariant.
LEMMA InitReader == ExactReader /\ ArchiverInit => ReaderInv
<1> SUFFICES ASSUME ExactReader, ArchiverInit PROVE ReaderInv
  OBVIOUS
<1>0. /\ conf \in ArchiverConfigs /\ fetching = TRUE /\ now = Poll /\ prevEnd = -1
      /\ pvQueue = (IF TailMode THEN <<>> ELSE PVList)
      /\ cycle = [ready |-> 0, from |-> 0, to |-> 0]
      /\ fpc = [w \in Threads |-> "top"]
      /\ window = [w \in Threads |-> [from |-> HistoricalFrom, to |-> HistoricalTo]]
      /\ stream = [w \in Threads |-> Stream(PVList[1], <<>>, <<>>, <<>>)]
      /\ mark = [w \in Threads |-> [p \in PVs |-> -1]]
      /\ completions = 0 /\ published = [p \in PVs |-> <<>>]
      /\ due = (IF TailMode THEN {} ELSE HistoricalFrom .. HistoricalTo)
      /\ broken = [p \in PVs |-> {}]
  BY DEF ArchiverInit
<1>1. /\ conf.threads \in Nat \ {0} /\ Poll \in Nat \ {0} /\ 0 \in Threads
  BY <1>0, ConfFacts
<1>2. PVList \in Seq(PVs) /\ PVList # <<>> /\ PVList[1] \in PVs
  <2>1. PVList \in Seq(PVs) /\ PVList # <<>>
    BY ArchiverAssumption DEF PVs
  <2> QED
    BY <2>1
<1>3. \A w \in Threads : fpc[w] = "top"
  BY <1>0
<1>4. pvQueue \in Seq(PVs) /\ Unrepeated(pvQueue)
  <2>1. CASE TailMode
    BY <1>0, <2>1 DEF Unrepeated
  <2>2. CASE ~TailMode
    BY <1>0, <1>2, <2>2 DEF ExactReader
  <2> QED
    BY <2>1, <2>2
<1>5. ReaderTypes
  <2>1. window \in [Threads -> [from : Int, to : Int]]
    BY <1>0 DEF HistoricalFrom, HistoricalTo
  <2>2. Stream(PVList[1], <<>>, <<>>, <<>>) \in [pv : PVs, rest : Seq(Int), chunk : Seq(Int), pending : Seq(Int)]
    BY <1>2 DEF Stream
  <2>3. stream \in [Threads -> [pv : PVs, rest : Seq(Int), chunk : Seq(Int), pending : Seq(Int)]]
    BY <1>0, <2>2
  <2>4. mark \in [Threads -> [PVs -> Int]] /\ published \in [PVs -> Seq(Int)] /\ broken \in [PVs -> SUBSET Int]
    BY <1>0
  <2>5. fpc \in [Threads -> Points]
    BY <1>0 DEF Points
  <2>6. due \subseteq Int
    BY <1>0 DEF HistoricalFrom, HistoricalTo
  <2>7. /\ now \in Int /\ prevEnd \in Int /\ cycle.from \in Int /\ cycle.to \in Int /\ completions \in Nat
        /\ fetching \in BOOLEAN
    BY <1>0, <1>1
  <2> QED
    BY <1>0, <1>4, <2>1, <2>3, <2>4, <2>5, <2>6, <2>7 DEF ReaderTypes
<1>6. PlaceInv
  BY <1>3, <1>4 DEF PlaceInv, Open
<1>7. RangeInv
  <2> SUFFICES ASSUME ~TailMode PROVE RangeInv!2
    BY DEF RangeInv
  <2>1. ToSet(pvQueue) \subseteq PVs
    BY <1>4 DEF ToSet
  <2>2. \A p \in ToSet(pvQueue) : published[p] = <<>> /\ \A w \in Threads : mark[w][p] = -1
    BY <1>0, <2>1
  <2> QED
    BY <1>0, <1>3, <2>2
<1>8. CycleInv
  <2> SUFFICES ASSUME TailMode PROVE CycleInv!2
    BY DEF CycleInv
  <2>1. Threads = {0}
    <3>1. conf.threads = 1
      BY <1>0 DEF ExactReader, TailMode
    <3> QED
      BY <3>1 DEF Threads
  <2>2. fpc[0] = "top" /\ pvQueue = <<>> /\ due = {} /\ cycle.to = 0
    BY <1>0, <1>1, <1>3
  <2>3. \A p \in PVs : mark[0][p] = -1 /\ ToSet(published[p]) = {}
    BY <1>0, <1>1, NoElement
  <2> QED
    BY <1>0, <1>1, <2>1, <2>2, <2>3 DEF Within
<1>9. StreamInv
  BY <1>3 DEF StreamInv
<1>10. OutInv
  BY <1>0, NoElement DEF OutInv
<1>11. CoverInv
  <2>1. ~TailMode => \A p \in PVs : p \in ToSet(pvQueue)
    BY <1>0 DEF PVs
  <2> QED
    BY <1>0, <2>1 DEF CoverInv, Waits
<1>12. PassedInv
  BY <1>0 DEF PassedInv
<1>13. ReportInv
  BY <1>0 DEF ReportInv
<1> QED
  BY <1>5, <1>6, <1>7, <1>8, <1>9, <1>10, <1>11, <1>12, <1>13 DEF ReaderInv

\* Top() is either of its two steps.
LEMMA TopKeeps ==
  ASSUME ReaderInv, NEW w \in Threads, Top(w)
  PROVE  ReaderInv'
<1>1. CASE ~fetching \/ ~TailMode \/ w > 0
  <2>1. /\ fpc[w] = "top" /\ UNCHANGED <<cycle, due, control, times, local, output, pvQueue>>
        /\ Goto(w, IF ~fetching THEN "exit" ELSE IF ~TailMode THEN "loop" ELSE "test")
    BY <1>1 DEF Top, Here
  <2> QED
    BY <1>1, <2>1, TopStep
<1>2. CASE ~(~fetching \/ ~TailMode \/ w > 0)
  <2>1. /\ fpc[w] = "top" /\ fetching /\ TailMode /\ w = 0
        /\ cycle' = [ready |-> cycle.ready, from |-> WindowStart, to |-> now]
        /\ due' = due \cup (WindowStart .. now) /\ Goto(w, "populate")
        /\ UNCHANGED <<control, times, local, output, pvQueue>>
    BY <1>2 DEF Top, Here
  <2> QED
    BY <2>1, BeginStep
<1> QED
  BY <1>1, <1>2

\* Every step keeps the invariant.
LEMMA NextReader == ExactReader /\ ReaderInv /\ [ArchiverNext]_archiverVars => ReaderInv'
<1> SUFFICES ASSUME ExactReader, ReaderInv, [ArchiverNext]_archiverVars PROVE ReaderInv'
  OBVIOUS
<1>1. CASE StopStore \/ StopNotify \/ StopJoin
  BY <1>1, StopStep
<1>2. ASSUME NEW w \in Threads, WorkerStep(w) PROVE ReaderInv'
  <2>1. CASE Top(w)
    BY <2>1, TopKeeps
  <2>2. CASE Populate(w)
    BY <2>2, PopulateStep
  <2>3. CASE Signal(w)
    BY <2>3, SignalStep
  <2>4. CASE Test(w)
    BY <2>4, TestStep
  <2>5. CASE Park(w)
    BY <2>5, ParkStep
  <2>6. CASE ReadWindow(w)
    BY <2>6, WindowStep
  <2>7. CASE Pop(w)
    BY <2>7, PopStep
  <2>8. CASE LeaveLoop(w)
    BY <2>8, LeaveLoopStep
  <2>9. CASE Sleep(w)
    BY <2>9, SleepStep
  <2>10. CASE Leave(w)
    BY <2>10, LeaveStep
  <2>11. CASE Parse(w)
    BY <2>11, ParseStep
  <2>12. CASE FinalizeChunk(w)
    BY <2>12, ChunkStep
  <2>13. CASE EndFetch(w)
    BY <2>13, EndStep
  <2>14. CASE FetchFails(w)
    BY <2>14, BreakStep
  <2>15. CASE FetchCancelled(w)
    BY <2>15, CancelledStep
  <2> QED
    BY <1>2, <2>1, <2>2, <2>3, <2>4, <2>5, <2>6, <2>7, <2>8, <2>9, <2>10, <2>11, <2>12, <2>13, <2>14,
       <2>15 DEF WorkerStep
<1>3. CASE UNCHANGED archiverVars
  <2>1. UNCHANGED <<conf, fetching, now, prevEnd, pvQueue, cycle, due, fpc, window, stream, mark,
                    completions, published, broken>>
    BY <1>3 DEF archiverVars, control, times, shared, local, output
  <2>2. /\ Threads' = Threads /\ (TailMode' <=> TailMode)
        /\ \A w : Held(w)' = Held(w) /\ Rest(w)' = Rest(w)
    BY <2>1 DEF Threads, TailMode, Held, Rest
  <2>3. PlaceInv' /\ StreamInv' /\ OutInv' /\ CoverInv' /\ PassedInv'
    BY <2>1, StreamsStay
  <2>4. ReportInv'
    BY <2>1, ReportStays
  <2>5. ReaderTypes'
    BY <2>1, <2>2 DEF ReaderInv, ReaderTypes
  <2>6. RangeInv'
    BY <2>1, <2>2 DEF ReaderInv, RangeInv
  <2>7. CycleInv'
    BY <2>1, <2>2 DEF ReaderInv, CycleInv
  <2> QED
    BY <2>3, <2>4, <2>5, <2>6, <2>7 DEF ReaderInv
<1> QED
  BY <1>1, <1>2, <1>3 DEF ArchiverNext

\* A PV has no open stream, and waits for none, when a round is over.
LEMMA ExactnessHolds == ReaderInv => ArchiveExact
<1> SUFFICES ASSUME ReaderInv PROVE ArchiveExact
  OBVIOUS
<1>0. ReaderTypes /\ OutInv /\ CoverInv /\ ReportInv /\ CycleInv
  BY DEF ReaderInv
<1>1. ASSUME RoundOver, NEW p \in PVs, NEW t \in due \ broken[p] PROVE t \in ToSet(published[p])
  <2>1. fetching /\ pvQueue = <<>> /\ \A w \in Threads : fpc[w] # "fetch" /\ fpc[w] # "populate"
    BY <1>1 DEF RoundOver
  <2>2. \A w \in Threads : ~Open(w, p)
    BY <2>1 DEF Open
  <2>3. ~Waits(p, t)
    BY <1>0, <2>1, NoElement DEF Waits, CycleInv
  <2> QED
    BY <1>0, <2>1, <2>2, <2>3 DEF CoverInv
<1>2. ASSUME completions > 0, NEW p \in PVs PROVE due \ broken[p] \subseteq ToSet(published[p])
  BY <1>0, <1>2 DEF ReportInv
<1>3. WindowsCovered
  BY <1>1, <1>2 DEF WindowsCovered, Settled
<1>4. \A p \in PVs : /\ \A i, j \in DOMAIN published[p] : i < j => published[p][i] < published[p][j]
                     /\ ToSet(published[p]) \subseteq due
  BY <1>0 DEF OutInv, Ascending
<1> QED
  BY <1>0, <1>3, <1>4 DEF ArchiveExact, ReportInv

\* Delivery is exact: for every list of PVs, window, batch limit, number of
\* historical threads and broken streams, when a round is over every sample its
\* windows asked for has been pushed once and in order unless its stream broke,
\* nothing else has, and completion is reported at most once, at the end
\* (runWorker, fetchSinglePV, parsePbHttpLineIntoState, signalCompleted).
THEOREM ArchiveIsExact == ASSUME ExactReader PROVE ArchiverSpec => []ArchiveExact
<1>1. ArchiverInit => ReaderInv
  BY InitReader
<1>2. ReaderInv /\ [ArchiverNext]_archiverVars => ReaderInv'
  BY NextReader
<1> QED
  BY <1>1, <1>2, ExactnessHolds, PTL DEF ArchiverSpec
-----------------------------------------------------------------------------
(* CalendarReader                                                          *)

\* Activations, under the names that events may get.
ActNames == UNION {UNION {{<<ev.program>>, <<ev.program, ev.calendar>>} : ev \in posts} : posts \in Calendars}
Acts     == [name : ActNames, from : Int, to : Int]

CalendarTypes ==
  /\ calendar \in Calendars /\ winStart \in Nat /\ intact \in BOOLEAN
  /\ held \in SUBSET Acts /\ IsFiniteSet(held)
  /\ activated \in Seq(Acts)
  /\ fetched \in SUBSET calendar

\* One post of each activity is the first, among the posts before.
Firsts(before, posts) ==
  /\ before \subseteq {ev \in posts : Timed(ev)}
  /\ \A a, b \in before : SameSlot(a, b) => a = b
  /\ \A ev \in posts : Timed(ev) => \E first \in before : SameSlot(first, ev)

SeenInv == Firsts(seenPosts, fetched)

\* The time of an activation is posted, and its configuration is out.
Backed(a, names, posts) ==
  /\ a.from <= a.to /\ a.name \in names
  /\ \A x \in a.from .. a.to - 1 :
       \E ev \in posts : Timed(ev) /\ ev.program = a.name[1] /\ ev.from <= x /\ x < ev.to
BackedInv == \A a \in held \cup ToSet(activated) : Backed(a, configured, fetched)

\* Two activations of a name do not touch.
Apart(acts) ==
  \A i, j \in DOMAIN acts : i # j /\ acts[i].name = acts[j].name
    => acts[i].to < acts[j].from \/ acts[j].to < acts[i].from

\* An activation covers an event under the name the event has.
Spans(a, ev, before) == a.name = NameOf(ev, before) /\ a.from <= ev.from /\ ev.to <= a.to

\* Between two windows: what was pushed ended before the window to come and
\* before the activation of its name that is held, there is one such, and an
\* event that reaches into the window to come belongs to it.
AheadInv ==
  reader = "scanning" /\ winStart < RangeEnd =>
    /\ intact
    /\ \A a \in ToSet(activated) : a.to < winStart /\ \A h \in held : a.name = h.name => a.to < h.from
    /\ \A g, h \in held : g.name = h.name => g = h
    /\ \A h \in held : h.from < winStart
    /\ winStart = 0 => activated = <<>> /\ held = {}
    /\ winStart > 0 =>
         \A ev \in calendar : Timed(ev) /\ ev.from < winStart /\ ev.to >= winStart =>
           ev \in fetched /\ \E h \in held : Spans(h, ev, seenPosts)

\* Every event fetched has its activation, held or pushed.
EventsCovered ==
  /\ winStart >= RangeEnd => held = {}
  /\ intact /\ (reader = "scanning" \/ winStart >= RangeEnd) =>
       \A ev \in fetched : Timed(ev) =>
         \E a \in held \cup ToSet(activated) : Spans(a, ev, seenPosts)

CalendarIInv ==
  CalendarTypes /\ SeenInv /\ BackedInv /\ Apart(activated) /\ AheadInv /\ EventsCovered

-----------------------------------------------------------------------------
(* Induction, and the folds of a window.                                   *)

\* Every non-empty set of naturals has a least element.
LEMMA LeastNat ==
  ASSUME NEW T, T \subseteq Nat, T # {}
  PROVE  \E x \in T : \A y \in T : x <= y
<1>1. PICK R : R = OpToRel(<, Nat)
  OBVIOUS
<1>2. IsWellFoundedOn(R, Nat)
  BY <1>1, NatLessThanWellFounded
<1>3. PICK x \in T : \A y \in T : ~(<<y, x>> \in R)
  BY <1>2, WFMin
<1>4. \A y \in Nat : y < x => <<y, x>> \in R
  BY <1>1 DEF OpToRel
<1>5. \A y \in T : ~(y < x)
  BY <1>3, <1>4
<1>6. \A y \in T : x <= y
  BY <1>5
<1> QED
  BY <1>6

\* A set with 0 and with the successor of each of its naturals has all of them.
LEMMA SetInduction ==
  ASSUME NEW S, 0 \in S, \A n \in Nat : n \in S => n + 1 \in S
  PROVE  Nat \subseteq S
<1> SUFFICES ASSUME ~(Nat \subseteq S) PROVE FALSE
  OBVIOUS
<1>1. PICK T : T = Nat \ S
  OBVIOUS
<1>2. T \subseteq Nat /\ T # {}
  BY <1>1
<1>3. PICK x \in T : \A y \in T : x <= y
  BY <1>2, LeastNat
<1>4. x # 0 /\ x \in Nat /\ x \notin S
  BY <1>1
<1>5. x - 1 \in Nat /\ x - 1 \notin T
  BY <1>3, <1>4
<1> QED
  BY <1>1, <1>4, <1>5

\* The largest of 1 .. n and of its subsets.
LEMMA MaxUpTo ==
  ASSUME NEW n \in Nat, NEW s \in SUBSET (1 .. n + 1), n + 1 \in s
  PROVE  Max(s) = n + 1 /\ s \ {Max(s)} \in SUBSET (1 .. n)
<1>1. \E x \in s : \A y \in s : x >= y
  OBVIOUS
<1>2. Max(s) \in s /\ \A y \in s : Max(s) >= y
  BY <1>1 DEF Max
<1>3. Max(s) = n + 1
  <2>1. PICK x : x = Max(s)
    OBVIOUS
  <2>2. x \in 1 .. n + 1 /\ x >= n + 1
    BY <1>2, <2>1
  <2> QED
    BY <2>1, <2>2
<1>4. \A x \in s : x # n + 1 => x \in 1 .. n
  OBVIOUS
<1> QED
  BY <1>3, <1>4

\* g folds Extend over the activations at every set of places among the first n.
Extending(acts, n, g) ==
  g = [s \in SUBSET (1 .. n) |->
         IF s = {} THEN <<>> ELSE Extend(g[s \ {Max(s)}], acts[Max(s)])]

\* It exists up to every place.
LEMMA ExtendingExists ==
  ASSUME NEW acts, NEW n \in Nat
  PROVE  \E g : Extending(acts, n, g)
<1>1. PICK S : S = {m \in Nat : \E g : Extending(acts, m, g)}
  OBVIOUS
<1>2. 0 \in S
  <2>1. PICK g : g = [s \in SUBSET (1 .. 0) |-> <<>>]
    OBVIOUS
  <2>2. \A s \in SUBSET (1 .. 0) : s = {}
    OBVIOUS
  <2>3. Extending(acts, 0, g)
    BY <2>1, <2>2 DEF Extending
  <2> QED
    BY <1>1, <2>3
<1>3. ASSUME NEW m \in Nat, m \in S PROVE m + 1 \in S
  <2>1. PICK g : Extending(acts, m, g)
    BY <1>1, <1>3
  <2>2. PICK h : h = [s \in SUBSET (1 .. m + 1) |->
                        IF m + 1 \in s THEN Extend(g[s \ {m + 1}], acts[m + 1]) ELSE g[s]]
    OBVIOUS
  <2>3. \A s \in SUBSET (1 .. m) : s \in SUBSET (1 .. m + 1) /\ m + 1 \notin s
    OBVIOUS
  <2>4. \A s \in SUBSET (1 .. m) : h[s] = g[s]
    BY <2>2, <2>3
  <2>5. \A s \in SUBSET (1 .. m) :
          g[s] = IF s = {} THEN <<>> ELSE Extend(g[s \ {Max(s)}], acts[Max(s)])
    BY <2>1 DEF Extending
  <2>6. ASSUME NEW s \in SUBSET (1 .. m + 1)
        PROVE  h[s] = IF s = {} THEN <<>> ELSE Extend(h[s \ {Max(s)}], acts[Max(s)])
    <3>1. CASE m + 1 \in s
      <4>1. Max(s) = m + 1 /\ s \ {m + 1} \in SUBSET (1 .. m)
        BY <3>1, MaxUpTo
      <4>2. h[s] = Extend(g[s \ {m + 1}], acts[m + 1])
        BY <2>2, <3>1
      <4> QED
        BY <2>4, <3>1, <4>1, <4>2
    <3>2. CASE m + 1 \notin s
      <4>1. s \in SUBSET (1 .. m) /\ s \ {Max(s)} \in SUBSET (1 .. m)
        <5>1. \A x \in s : x \in 1 .. m
          BY <3>2
        <5> QED
          BY <5>1
      <4> QED
        BY <2>4, <2>5, <4>1
    <3> QED
      BY <3>1, <3>2
  <2>7. h = [s \in SUBSET (1 .. m + 1) |->
               IF s = {} THEN <<>> ELSE Extend(h[s \ {Max(s)}], acts[Max(s)])]
    BY <2>2, <2>6
  <2>8. Extending(acts, m + 1, h)
    BY <2>7 DEF Extending
  <2> QED
    BY <1>1, <2>8
<1> QED
  BY <1>1, <1>2, <1>3, SetInduction

\* acc[k] are the runs of the first k of n activations.
Merges(acc, acts, n) ==
  /\ acc[0] = <<>>
  /\ \A k \in 1 .. n : acc[k] = Extend(acc[k - 1], acts[k])
  /\ acc[n] = FoldLeft(Extend, <<>>, acts)

\* mergeAndPushActivations() takes the activations one after the other.
LEMMA RunsUnfold ==
  ASSUME NEW acts, NEW n \in Nat, DOMAIN acts = 1 .. n
  PROVE  \E acc : Merges(acc, acts, n)
<1>1. PICK g : g = CHOOSE f : f = [s \in SUBSET (1 .. n) |->
                 IF s = {} THEN <<>> ELSE Extend(f[s \ {Max(s)}], acts[Max(s)])]
  OBVIOUS
<1>2. FoldLeft(Extend, <<>>, acts) = g[1 .. n]
  BY <1>1 DEF FoldLeft, MapThenFoldSet
<1>3. Extending(acts, n, g)
  <2>0. PICK h : Extending(acts, n, h)
    BY ExtendingExists
  <2>1. h = [s \in SUBSET (1 .. n) |->
                 IF s = {} THEN <<>> ELSE Extend(h[s \ {Max(s)}], acts[Max(s)])]
    BY <2>0 DEF Extending
  <2>2. g = [s \in SUBSET (1 .. n) |->
                 IF s = {} THEN <<>> ELSE Extend(g[s \ {Max(s)}], acts[Max(s)])]
    BY <1>1, <2>1, Zenon
  <2> QED
    BY <2>2 DEF Extending
<1>4. PICK acc : acc = [k \in 0 .. n |-> g[1 .. k]]
  OBVIOUS
<1>5. acc[0] = <<>>
  <2>1. 1 .. 0 = {} /\ {} \in SUBSET (1 .. n)
    OBVIOUS
  <2>2. g[{}] = <<>>
    BY <1>3, <2>1 DEF Extending
  <2> QED
    BY <1>4, <2>1, <2>2
<1>6. ASSUME NEW k \in 1 .. n PROVE acc[k] = Extend(acc[k - 1], acts[k])
  <2>1. k - 1 \in Nat /\ 1 .. k \in SUBSET (1 .. (k - 1) + 1) /\ (k - 1) + 1 \in 1 .. k
    OBVIOUS
  <2>2. Max(1 .. k) = (k - 1) + 1
    BY <2>1, MaxUpTo
  <2>3. (1 .. k) \ {k} = 1 .. k - 1 /\ 1 .. k \in SUBSET (1 .. n) /\ 1 .. k # {}
    OBVIOUS
  <2>4. g[1 .. k] = Extend(g[1 .. k - 1], acts[k])
    <3>1. \A s \in SUBSET (1 .. n) :
            g[s] = IF s = {} THEN <<>> ELSE Extend(g[s \ {Max(s)}], acts[Max(s)])
      BY <1>3 DEF Extending
    <3>2. Max(1 .. k) = k
      BY <2>2
    <3> QED
      BY <2>3, <3>1, <3>2
  <2>5. acc[k] = g[1 .. k] /\ acc[k - 1] = g[1 .. k - 1]
    BY <1>4
  <2> QED
    BY <2>4, <2>5
<1>7. acc[n] = FoldLeft(Extend, <<>>, acts)
  BY <1>2, <1>4
<1> QED
  BY <1>5, <1>6, <1>7 DEF Merges

\* g folds PushEvent over the events at every set of places among the first n.
Pushing(start, events, n, g) ==
  g = [s \in SUBSET (1 .. n) |->
         IF s = {} THEN start ELSE PushEvent(g[s \ {Max(s)}], events[Max(s)])]

\* It exists up to every place.
LEMMA PushingExists ==
  ASSUME NEW start, NEW events, NEW n \in Nat
  PROVE  \E g : Pushing(start, events, n, g)
<1>1. PICK S : S = {m \in Nat : \E g : Pushing(start, events, m, g)}
  OBVIOUS
<1>2. 0 \in S
  <2>1. PICK g : g = [s \in SUBSET (1 .. 0) |-> start]
    OBVIOUS
  <2>2. \A s \in SUBSET (1 .. 0) : s = {}
    OBVIOUS
  <2>3. Pushing(start, events, 0, g)
    BY <2>1, <2>2 DEF Pushing
  <2> QED
    BY <1>1, <2>3
<1>3. ASSUME NEW m \in Nat, m \in S PROVE m + 1 \in S
  <2>1. PICK g : Pushing(start, events, m, g)
    BY <1>1, <1>3
  <2>2. PICK h : h = [s \in SUBSET (1 .. m + 1) |->
                        IF m + 1 \in s THEN PushEvent(g[s \ {m + 1}], events[m + 1]) ELSE g[s]]
    OBVIOUS
  <2>3. \A s \in SUBSET (1 .. m) : s \in SUBSET (1 .. m + 1) /\ m + 1 \notin s
    OBVIOUS
  <2>4. \A s \in SUBSET (1 .. m) : h[s] = g[s]
    BY <2>2, <2>3
  <2>5. \A s \in SUBSET (1 .. m) :
          g[s] = IF s = {} THEN start ELSE PushEvent(g[s \ {Max(s)}], events[Max(s)])
    BY <2>1 DEF Pushing
  <2>6. ASSUME NEW s \in SUBSET (1 .. m + 1)
        PROVE  h[s] = IF s = {} THEN start ELSE PushEvent(h[s \ {Max(s)}], events[Max(s)])
    <3>1. CASE m + 1 \in s
      <4>1. Max(s) = m + 1 /\ s \ {m + 1} \in SUBSET (1 .. m)
        BY <3>1, MaxUpTo
      <4>2. h[s] = PushEvent(g[s \ {m + 1}], events[m + 1])
        BY <2>2, <3>1
      <4> QED
        BY <2>4, <3>1, <4>1, <4>2
    <3>2. CASE m + 1 \notin s
      <4>1. s \in SUBSET (1 .. m) /\ s \ {Max(s)} \in SUBSET (1 .. m)
        <5>1. \A x \in s : x \in 1 .. m
          BY <3>2
        <5> QED
          BY <5>1
      <4> QED
        BY <2>4, <2>5, <4>1
    <3> QED
      BY <3>1, <3>2
  <2>7. h = [s \in SUBSET (1 .. m + 1) |->
               IF s = {} THEN start ELSE PushEvent(h[s \ {Max(s)}], events[Max(s)])]
    BY <2>2, <2>6
  <2>8. Pushing(start, events, m + 1, h)
    BY <2>7 DEF Pushing
  <2> QED
    BY <1>1, <2>8
<1> QED
  BY <1>1, <1>2, <1>3, SetInduction

\* acc[k] is what the first k of n events made of start.
Parses(acc, start, events, n) ==
  /\ acc[0] = start
  /\ \A k \in 1 .. n : acc[k] = PushEvent(acc[k - 1], events[k])
  /\ acc[n] = FoldLeft(PushEvent, start, events)

\* parseAndPush() takes the events one after the other.
LEMMA ParseUnfolds ==
  ASSUME NEW start, NEW events, NEW n \in Nat, DOMAIN events = 1 .. n
  PROVE  \E acc : Parses(acc, start, events, n)
<1>1. PICK g : g = CHOOSE f : f = [s \in SUBSET (1 .. n) |->
                 IF s = {} THEN start ELSE PushEvent(f[s \ {Max(s)}], events[Max(s)])]
  OBVIOUS
<1>2. FoldLeft(PushEvent, start, events) = g[1 .. n]
  BY <1>1 DEF FoldLeft, MapThenFoldSet
<1>3. Pushing(start, events, n, g)
  <2>0. PICK h : Pushing(start, events, n, h)
    BY PushingExists
  <2>1. h = [s \in SUBSET (1 .. n) |->
                 IF s = {} THEN start ELSE PushEvent(h[s \ {Max(s)}], events[Max(s)])]
    BY <2>0 DEF Pushing
  <2>2. g = [s \in SUBSET (1 .. n) |->
                 IF s = {} THEN start ELSE PushEvent(g[s \ {Max(s)}], events[Max(s)])]
    BY <1>1, <2>1, Zenon
  <2> QED
    BY <2>2 DEF Pushing
<1>4. PICK acc : acc = [k \in 0 .. n |-> g[1 .. k]]
  OBVIOUS
<1>5. acc[0] = start
  <2>1. 1 .. 0 = {} /\ {} \in SUBSET (1 .. n)
    OBVIOUS
  <2>2. g[{}] = start
    BY <1>3, <2>1 DEF Pushing
  <2> QED
    BY <1>4, <2>1, <2>2
<1>6. ASSUME NEW k \in 1 .. n PROVE acc[k] = PushEvent(acc[k - 1], events[k])
  <2>1. k - 1 \in Nat /\ 1 .. k \in SUBSET (1 .. (k - 1) + 1) /\ (k - 1) + 1 \in 1 .. k
    OBVIOUS
  <2>2. Max(1 .. k) = (k - 1) + 1
    BY <2>1, MaxUpTo
  <2>3. (1 .. k) \ {k} = 1 .. k - 1 /\ 1 .. k \in SUBSET (1 .. n) /\ 1 .. k # {}
    OBVIOUS
  <2>4. g[1 .. k] = PushEvent(g[1 .. k - 1], events[k])
    <3>1. \A s \in SUBSET (1 .. n) :
            g[s] = IF s = {} THEN start ELSE PushEvent(g[s \ {Max(s)}], events[Max(s)])
      BY <1>3 DEF Pushing
    <3>2. Max(1 .. k) = k
      BY <2>2
    <3> QED
      BY <2>3, <3>1, <3>2
  <2>5. acc[k] = g[1 .. k] /\ acc[k - 1] = g[1 .. k - 1]
    BY <1>4
  <2> QED
    BY <2>4, <2>5
<1>7. acc[n] = FoldLeft(PushEvent, start, events)
  BY <1>2, <1>4
<1> QED
  BY <1>5, <1>6, <1>7 DEF Parses

-----------------------------------------------------------------------------
(* Sets as sequences, and sorting.                                         *)

\* A sequence of a set's elements, each once, has all of them.
LEMMA ListedAll ==
  ASSUME NEW S, IsFiniteSet(S), NEW s \in SetToSeqs(S)
  PROVE  /\ Cardinality(S) \in Nat /\ s \in Seq(S) /\ DOMAIN s = 1 .. Cardinality(S)
         /\ Len(s) = Cardinality(S)
         /\ \A x \in S : \E i \in DOMAIN s : s[i] = x
         /\ \A i, j \in DOMAIN s : s[i] = s[j] => i = j
<1>1. PICK n : n = Cardinality(S)  OBVIOUS
<1>2. n \in Nat  BY <1>1, FS_CardinalityType
<1>3. s \in [1 .. n -> S] /\ \A i, j \in 1 .. n : i # j => s[i] # s[j]
  BY <1>1 DEF SetToSeqs
<1>4. s \in Injection(1 .. n, S)  BY <1>3 DEF Injection, IsInjective
<1>5. IsFiniteSet(1 .. n) /\ Cardinality(1 .. n) = n  BY <1>2, FS_Interval
<1>6. s \in Surjection(1 .. n, S)  BY <1>1, <1>4, <1>5, FS_Injection
<1>7. \A x \in S : \E i \in 1 .. n : s[i] = x  BY <1>6 DEF Surjection
<1>8. s \in Seq(S) /\ DOMAIN s = 1 .. n /\ Len(s) = n  BY <1>2, <1>3
<1> QED  BY <1>1, <1>2, <1>3, <1>7, <1>8

\* A finite set can be written as a sequence, and SetToSeq does it.
LEMMA SetToSeqAll ==
  ASSUME NEW S, IsFiniteSet(S)
  PROVE  SetToSeq(S) \in SetToSeqs(S)
<1>1. PICK n : n = Cardinality(S)  OBVIOUS
<1>2. ExistsBijection(1 .. n, S)  BY <1>1, FS_CardinalityType
<1>3. PICK f \in [1 .. n -> S] : IsInjective(f)
  BY <1>2 DEF ExistsBijection, Bijection, Injection
<1>4. SetToSeq(S) \in [1 .. n -> S] /\ IsInjective(SetToSeq(S))
  BY <1>1, <1>3 DEF SetToSeq
<1> HIDE DEF SetToSeq
<1>5. \A i, j \in 1 .. n : i # j => SetToSeq(S)[i] # SetToSeq(S)[j]
  BY <1>4 DEF IsInjective
<1> QED  BY <1>1, <1>4, <1>5 DEF SetToSeqs

\* n activations of A in the order of their starts.
InOrder(s, n, A) ==
  /\ s \in [1 .. n -> A]
  /\ \A i, j \in 1 .. n : i # j => s[i] # s[j]
  /\ \A i, j \in 1 .. n : i < j => s[i].from <= s[j].from
  /\ \A x \in A : \E i \in 1 .. n : s[i] = x

\* A set of n activations has such an order.
LEMMA OrderExists ==
  ASSUME NEW U, \A a \in U : a.from \in Int
  PROVE  \A n \in Nat : \A A \in SUBSET U :
           IsFiniteSet(A) /\ Cardinality(A) = n => \E s : InOrder(s, n, A)
<1> DEFINE Ordered(n) == \A A \in SUBSET U :
             IsFiniteSet(A) /\ Cardinality(A) = n => \E s : InOrder(s, n, A)
           S == {n \in Nat : Ordered(n)}
<1>1. 0 \in S
  <2>1. SUFFICES ASSUME NEW A \in SUBSET U, IsFiniteSet(A), Cardinality(A) = 0
                 PROVE  \E s : InOrder(s, 0, A)
    OBVIOUS
  <2>2. A = {}  BY <2>1, FS_EmptySet
  <2>3. PICK s : s = [i \in 1 .. 0 |-> 0]  OBVIOUS
  <2>4. s \in [1 .. 0 -> A]  BY <2>3
  <2> QED  BY <2>2, <2>4 DEF InOrder
<1>2. ASSUME NEW n \in Nat, n \in S PROVE n + 1 \in S
  <2>0. Ordered(n)  BY <1>2
  <2>1. SUFFICES ASSUME NEW A \in SUBSET U, IsFiniteSet(A), Cardinality(A) = n + 1
                 PROVE  \E s : InOrder(s, n + 1, A)
    OBVIOUS
  <2>2. ASSUME NEW x \in A
        PROVE  \E s : InOrder(s, n, A \ {x})
    <3>1. IsFiniteSet(A \ {x}) /\ Cardinality(A \ {x}) = Cardinality(A) - 1
      BY <2>1, <2>2, FS_RemoveElement
    <3>2. A \ {x} \in SUBSET U /\ Cardinality(A \ {x}) = n  BY <2>1, <3>1
    <3> QED  BY <2>0, <3>1, <3>2
  <2>3. PICK last \in A : \A a \in A : a.from <= last.from
    <3>1. PICK x \in A : TRUE
      <4>1. A # {}  BY <2>1, FS_EmptySet
      <4> QED  BY <4>1
    <3>2. PICK s : InOrder(s, n, A \ {x})  BY <2>2
    <3>3. CASE n = 0
      <4>1. \A a \in A : a = x  BY <3>2, <3>3 DEF InOrder
      <4> QED  BY <4>1
    <3>4. CASE n # 0
      <4>1. n \in 1 .. n /\ s[n] \in A  BY <3>2, <3>4 DEF InOrder
      <4>2. ASSUME NEW a \in A \ {x} PROVE a.from <= s[n].from
        <5>1. PICK i \in 1 .. n : s[i] = a  BY <3>2, <4>2 DEF InOrder
        <5> QED  BY <3>2, <4>1, <5>1 DEF InOrder
      <4>3. CASE x.from <= s[n].from
        BY <4>1, <4>2, <4>3
      <4>4. CASE ~(x.from <= s[n].from)
        <5>1. \A a \in A : a.from <= x.from  BY <4>1, <4>2, <4>4
        <5> QED  BY <5>1
      <4> QED  BY <4>3, <4>4
    <3> QED  BY <3>3, <3>4
  <2>4. PICK s : InOrder(s, n, A \ {last})  BY <2>2
  <2>5. PICK t : t = [i \in 1 .. n + 1 |-> IF i = n + 1 THEN last ELSE s[i]]  OBVIOUS
  <2>6. \A i \in 1 .. n + 1 : i = n + 1 \/ i \in 1 .. n  OBVIOUS
  <2>7. s \in [1 .. n -> A \ {last}]  BY <2>4 DEF InOrder
  <2>8. t \in [1 .. n + 1 -> A]  BY <2>5, <2>6, <2>7
  <2>9. \A i \in 1 .. n : t[i] = s[i] /\ t[i] # last /\ t[i] \in A  BY <2>5, <2>7
  <2>10. t[n + 1] = last /\ n + 1 \in 1 .. n + 1  BY <2>5
  <2>11. ASSUME NEW i \in 1 .. n + 1, NEW j \in 1 .. n + 1, i # j PROVE t[i] # t[j]
    <3>1. CASE i = n + 1 \/ j = n + 1
      BY <2>6, <2>9, <2>10, <2>11, <3>1
    <3>2. CASE i # n + 1 /\ j # n + 1
      BY <2>4, <2>6, <2>9, <2>11, <3>2 DEF InOrder
    <3> QED  BY <3>1, <3>2
  <2>12. ASSUME NEW i \in 1 .. n + 1, NEW j \in 1 .. n + 1, i < j PROVE t[i].from <= t[j].from
    <3>1. CASE j = n + 1
      BY <2>3, <2>8, <2>10, <3>1
    <3>2. CASE j # n + 1
      <4>1. i \in 1 .. n /\ j \in 1 .. n  BY <2>6, <2>12, <3>2
      <4> QED  BY <2>4, <2>9, <2>12, <4>1 DEF InOrder
    <3> QED  BY <3>1, <3>2
  <2>13. ASSUME NEW x \in A PROVE \E i \in 1 .. n + 1 : t[i] = x
    <3>1. CASE x = last
      BY <2>10, <3>1
    <3>2. CASE x # last
      <4>1. PICK i \in 1 .. n : s[i] = x  BY <2>4, <3>2 DEF InOrder
      <4> QED  BY <2>9, <4>1
    <3> QED  BY <3>1, <3>2
  <2>14. InOrder(t, n + 1, A)  BY <2>8, <2>11, <2>12, <2>13 DEF InOrder
  <2> QED  BY <2>14
<1> HIDE DEF Ordered
<1>3. \A n \in Nat : n \in S => n + 1 \in S  BY <1>2
<1> HIDE DEF S
<1>4. Nat \subseteq S  BY <1>1, <1>3, SetInduction
<1> QED  BY <1>4 DEF S, Ordered

\* ByStart lists a set of activations in the order of their starts.
LEMMA Sorted ==
  ASSUME NEW A, IsFiniteSet(A), \A a \in A : a.from \in Int
  PROVE  /\ ByStart(A) \in SetToSeqs(A)
         /\ \A i, j \in DOMAIN ByStart(A) : i < j => ByStart(A)[i].from <= ByStart(A)[j].from
<1>1. PICK n : n = Cardinality(A) /\ n \in Nat  BY FS_CardinalityType
<1>2. PICK s : InOrder(s, n, A)  BY <1>1, OrderExists
<1>3. s \in SetToSeqs(A)  BY <1>1, <1>2 DEF InOrder, SetToSeqs
<1>4. \A i, j \in DOMAIN s : i < j => s[i].from <= s[j].from  BY <1>2 DEF InOrder
<1> QED  BY <1>3, <1>4 DEF ByStart
-----------------------------------------------------------------------------
(* Merging.                                                                *)

\* The larger and the smaller of two.
LEMMA MaxOfTwo ==
  ASSUME NEW a \in Int, NEW b \in Int
  PROVE  Max({a, b}) \in {a, b} /\ Max({a, b}) >= a /\ Max({a, b}) >= b
<1>1. \E x \in {a, b} : \A y \in {a, b} : x >= y  OBVIOUS
<1>2. Max({a, b}) \in {a, b} /\ \A y \in {a, b} : Max({a, b}) >= y  BY <1>1 DEF Max
<1> HIDE DEF Max
<1> QED  BY <1>2

LEMMA MinOfTwo ==
  ASSUME NEW a \in Int, NEW b \in Int
  PROVE  Min({a, b}) \in {a, b} /\ a >= Min({a, b}) /\ b >= Min({a, b})
<1>1. \E x \in {a, b} : \A y \in {a, b} : x =< y  OBVIOUS
<1>2. Min({a, b}) \in {a, b} /\ \A y \in {a, b} : Min({a, b}) =< y  BY <1>1 DEF Min
<1> HIDE DEF Min
<1> QED  BY <1>2

\* Activations of one name, in the order of their starts.
Timeline(s, n, name) ==
  /\ s \in [1 .. n -> Acts]
  /\ \A k \in 1 .. n : s[k].name = name /\ s[k].from <= s[k].to
  /\ \A i, j \in 1 .. n : i < j => s[i].from <= s[j].from

\* r are the runs of the first k of them: they lie apart, span each activation
\* and only time that one of them spans.
RunsOf(r, s, k, name) ==
  /\ r \in Seq(Acts) /\ (k > 0 => r # <<>>)
  /\ \A i \in DOMAIN r : r[i].name = name /\ r[i].from <= r[i].to
  /\ \A i, j \in DOMAIN r : i < j => r[i].to < r[j].from
  /\ \A m \in 1 .. k : \E i \in DOMAIN r : r[i].from <= s[m].from /\ s[m].to <= r[i].to
  /\ \A i \in DOMAIN r : \E m \in 1 .. k : r[i].from = s[m].from
  /\ \A i \in DOMAIN r : \A x \in Int : r[i].from <= x /\ x < r[i].to =>
       \E m \in 1 .. k : s[m].from <= x /\ x < s[m].to

\* The run that an activation joins, and the others.
LEMMA JoinRuns ==
  ASSUME NEW n \in Nat, NEW name, NEW s, Timeline(s, n, name), NEW k \in Nat, k + 1 <= n,
         NEW r, RunsOf(r, s, k, name), r # <<>>, s[k + 1].from <= Last(r).to,
         NEW q, q = [r EXCEPT ![Len(r)] = Joined(@, s[k + 1])]
  PROVE  RunsOf(q, s, k + 1, name)
<1>0. PICK z, a : z = Len(r) /\ a = s[k + 1]  OBVIOUS
<1> DEFINE f == Joined(r[z], a)
<1>1. k + 1 \in 1 .. n /\ a \in Acts /\ a.from <= a.to /\ a.name = name
      /\ \A m \in 1 .. k : m \in 1 .. n /\ s[m].from <= a.from /\ s[m] \in Acts
  BY <1>0 DEF Timeline
<1>2. /\ r \in Seq(Acts) /\ z \in Nat /\ z \in 1 .. z /\ DOMAIN r = 1 .. z
      /\ \A i \in 1 .. z : r[i] \in Acts
  BY <1>0 DEF RunsOf
<1>3. r[z].name = name /\ r[z].from <= r[z].to /\ a.from <= r[z].to
  BY <1>0, <1>2 DEF RunsOf, Last
<1>4. a.from \in Int /\ a.to \in Int /\ r[z].from \in Int /\ r[z].to \in Int
  BY <1>1, <1>2 DEF Acts
<1>5. /\ f.name = name /\ f.from = r[z].from /\ f.to \in {r[z].to, a.to}
      /\ f.to >= r[z].to /\ f.to >= a.to /\ f \in Acts /\ f.to \in Int
  <2>1. Max({r[z].to, a.to}) \in {r[z].to, a.to} /\ Max({r[z].to, a.to}) >= r[z].to
        /\ Max({r[z].to, a.to}) >= a.to
    BY <1>4, MaxOfTwo
  <2>2. f = [name |-> r[z].name, from |-> r[z].from, to |-> Max({r[z].to, a.to})]
    BY DEF Joined
  <2>3. f.name = r[z].name /\ f.from = r[z].from /\ f.to = Max({r[z].to, a.to})  BY <2>2
  <2>4. f \in Acts
    <3> DEFINE t == Max({r[z].to, a.to})
    <3>1. t \in Int  BY <1>4, <2>1
    <3> HIDE DEF t
    <3> QED  BY <1>2, <2>2, <3>1 DEF Acts, t
  <2> QED  BY <1>3, <1>4, <2>1, <2>3, <2>4
<1> HIDE DEF f
<1>6. \E m \in 1 .. k : r[z].from = s[m].from  BY <1>2 DEF RunsOf
<1>7. r[z].from <= a.from  BY <1>1, <1>6
<1>8. q = [i \in 1 .. z |-> IF i = z THEN f ELSE r[i]]  BY <1>0, <1>2 DEF f
<1>9. DOMAIN q = 1 .. z /\ q[z] = f /\ \A i \in 1 .. z : i # z => q[i] = r[i]  BY <1>2, <1>8
<1>10. q \in [1 .. z -> Acts]  BY <1>2, <1>5, <1>8
<1>11. q \in Seq(Acts) /\ q # <<>>
  <2>1. q \in Seq(Acts)  BY <1>2, <1>10
  <2>2. 1 \in DOMAIN q  BY <1>2, <1>9
  <2> QED  BY <2>1, <2>2
<1>12. ASSUME NEW i \in DOMAIN q PROVE q[i].name = name /\ q[i].from <= q[i].to
  <2>1. CASE i = z
    <3>1. f.name = name  BY <1>5
    <3>2. f.from = r[z].from /\ f.to >= r[z].to /\ f.to \in Int  BY <1>5
    <3>3. f.from <= f.to  BY <1>3, <1>4, <3>2
    <3> QED  BY <1>9, <2>1, <3>1, <3>3
  <2>2. CASE i # z
    <3>1. q[i] = r[i] /\ i \in DOMAIN r  BY <1>2, <1>9, <1>12, <2>2
    <3> QED  BY <3>1 DEF RunsOf
  <2> QED  BY <2>1, <2>2
<1>13. ASSUME NEW i \in DOMAIN q, NEW j \in DOMAIN q, i < j PROVE q[i].to < q[j].from
  <2>1. r[i].to < r[j].from  BY <1>2, <1>9, <1>13 DEF RunsOf
  <2>2. i # z /\ q[i] = r[i]
    <3>1. i \in 1 .. z /\ j \in 1 .. z  BY <1>9
    <3>2. i # z  BY <1>2, <1>13, <3>1
    <3> QED  BY <1>9, <3>1, <3>2
  <2>3. q[j].from = r[j].from  BY <1>5, <1>9, <1>13
  <2> QED  BY <2>1, <2>2, <2>3
<1>14. ASSUME NEW m \in 1 .. k + 1
       PROVE  \E i \in DOMAIN q : q[i].from <= s[m].from /\ s[m].to <= q[i].to
  <2>1. CASE m = k + 1
    BY <1>0, <1>2, <1>5, <1>7, <1>9, <2>1
  <2>2. CASE m # k + 1
    <3>1. m \in 1 .. k /\ s[m] \in Acts  BY <1>1, <2>2
    <3>2. PICK i \in DOMAIN r : r[i].from <= s[m].from /\ s[m].to <= r[i].to
      BY <3>1 DEF RunsOf
    <3>3. CASE i = z
      <4>1. s[m].to \in Int  BY <3>1 DEF Acts
      <4>2. s[m].to <= r[z].to /\ r[z].from <= s[m].from  BY <3>2, <3>3
      <4>3. s[m].to <= f.to  BY <1>4, <1>5, <4>1, <4>2
      <4> QED  BY <1>2, <1>5, <1>9, <4>2, <4>3
    <3>4. CASE i # z
      BY <1>2, <1>9, <3>2, <3>4
    <3> QED  BY <3>3, <3>4
  <2> QED  BY <2>1, <2>2
<1>15. ASSUME NEW i \in DOMAIN q PROVE \E m \in 1 .. k + 1 : q[i].from = s[m].from
  <2>1. q[i].from = r[i].from  BY <1>5, <1>9, <1>15
  <2>2. PICK m \in 1 .. k : r[i].from = s[m].from  BY <1>2, <1>9 DEF RunsOf
  <2>3. m \in 1 .. k + 1  OBVIOUS
  <2> QED  BY <2>1, <2>2, <2>3
<1>16. ASSUME NEW i \in DOMAIN q, NEW x \in Int, q[i].from <= x, x < q[i].to
       PROVE  \E m \in 1 .. k + 1 : s[m].from <= x /\ x < s[m].to
  <2>1. CASE r[i].from <= x /\ x < r[i].to
    <3>1. PICK m \in 1 .. k : s[m].from <= x /\ x < s[m].to
      BY <1>2, <1>9, <2>1 DEF RunsOf
    <3>2. m \in 1 .. k + 1  OBVIOUS
    <3> QED  BY <3>1, <3>2
  <2>2. CASE ~(r[i].from <= x /\ x < r[i].to)
    <3>1. i = z  BY <1>9, <1>16, <2>2
    <3>2. r[z].from <= x /\ x < f.to  BY <1>5, <1>9, <1>16, <3>1
    <3>3. ~(x < r[z].to)  BY <2>2, <3>1, <3>2
    <3>4. a.from <= x /\ x < a.to  BY <1>3, <1>4, <1>5, <3>2, <3>3
    <3> QED  BY <1>0, <3>4
  <2> QED  BY <2>1, <2>2
<1> QED  BY <1>11, <1>12, <1>13, <1>14, <1>15, <1>16 DEF RunsOf

\* The run that an activation begins, and the others.
LEMMA AppendRuns ==
  ASSUME NEW n \in Nat, NEW name, NEW s, Timeline(s, n, name), NEW k \in Nat, k + 1 <= n,
         NEW r, RunsOf(r, s, k, name), r = <<>> \/ ~(s[k + 1].from <= Last(r).to),
         NEW q, q = Append(r, s[k + 1])
  PROVE  RunsOf(q, s, k + 1, name)
<1>0. PICK z, a : z = Len(r) /\ a = s[k + 1]  OBVIOUS
<1>1. k + 1 \in 1 .. n /\ a \in Acts /\ a.from <= a.to /\ a.name = name
  BY <1>0 DEF Timeline
<1>2. r \in Seq(Acts) /\ z \in Nat /\ DOMAIN r = 1 .. z
  BY <1>0 DEF RunsOf
<1>3. /\ q \in Seq(Acts) /\ q # <<>> /\ DOMAIN q = 1 .. z + 1 /\ q[z + 1] = a
      /\ \A i \in 1 .. z : q[i] = r[i]
  BY <1>0, <1>1, <1>2
<1>4. \A i \in 1 .. z + 1 : i = z + 1 \/ i \in 1 .. z  BY <1>2
<1>5. ASSUME NEW i \in 1 .. z PROVE r[i].to < a.from
  <2>1. z \in 1 .. z /\ ~(a.from <= r[z].to)  BY <1>0, <1>2, <1>5 DEF Last
  <2>2. r[z] \in Acts /\ r[i] \in Acts /\ r[z].from <= r[z].to  BY <1>2, <2>1 DEF RunsOf
  <2>3. r[z].to < a.from  BY <1>1, <2>1, <2>2 DEF Acts
  <2>4. CASE i = z
    BY <2>3, <2>4
  <2>5. CASE i # z
    <3>0. i < z  BY <1>2, <1>5, <2>5
    <3>1. r[i].to < r[z].from  BY <1>2, <2>1, <3>0 DEF RunsOf
    <3> QED  BY <1>1, <2>2, <2>3, <3>1 DEF Acts
  <2> QED  BY <2>4, <2>5
<1>6. ASSUME NEW i \in DOMAIN q PROVE q[i].name = name /\ q[i].from <= q[i].to
  BY <1>1, <1>2, <1>3, <1>4, <1>6 DEF RunsOf
<1>7. ASSUME NEW i \in DOMAIN q, NEW j \in DOMAIN q, i < j PROVE q[i].to < q[j].from
  <2>1. i \in 1 .. z  BY <1>2, <1>3, <1>7
  <2>2. CASE j = z + 1
    BY <1>3, <1>5, <2>1, <2>2
  <2>3. CASE j # z + 1
    BY <1>2, <1>3, <1>4, <1>7, <2>1, <2>3 DEF RunsOf
  <2> QED  BY <2>2, <2>3
<1>8. ASSUME NEW m \in 1 .. k + 1
      PROVE  \E i \in DOMAIN q : q[i].from <= s[m].from /\ s[m].to <= q[i].to
  <2>1. CASE m = k + 1
    <3>1. z + 1 \in DOMAIN q  BY <1>2, <1>3
    <3>2. a.from <= a.from /\ a.to <= a.to  BY <1>1 DEF Acts
    <3> QED  BY <1>0, <1>3, <2>1, <3>1, <3>2
  <2>2. CASE m # k + 1
    <3>1. m \in 1 .. k  BY <2>2
    <3>2. PICK i \in DOMAIN r : r[i].from <= s[m].from /\ s[m].to <= r[i].to
      BY <3>1 DEF RunsOf
    <3>3. i \in DOMAIN q  BY <1>2, <1>3
    <3> QED  BY <1>2, <1>3, <3>2, <3>3
  <2> QED  BY <2>1, <2>2
<1>9. ASSUME NEW i \in DOMAIN q PROVE \E m \in 1 .. k + 1 : q[i].from = s[m].from
  <2>1. CASE i = z + 1
    BY <1>0, <1>3, <2>1
  <2>2. CASE i # z + 1
    <3>1. i \in 1 .. z  BY <1>3, <1>4, <2>2
    <3>2. PICK m \in 1 .. k : r[i].from = s[m].from  BY <1>2, <3>1 DEF RunsOf
    <3>3. m \in 1 .. k + 1  OBVIOUS
    <3> QED  BY <1>3, <3>1, <3>2, <3>3
  <2> QED  BY <2>1, <2>2
<1>10. ASSUME NEW i \in DOMAIN q, NEW x \in Int, q[i].from <= x, x < q[i].to
       PROVE  \E m \in 1 .. k + 1 : s[m].from <= x /\ x < s[m].to
  <2>1. CASE i = z + 1
    BY <1>0, <1>3, <1>10, <2>1
  <2>2. CASE i # z + 1
    <3>1. i \in 1 .. z  BY <1>3, <1>4, <2>2
    <3>2. PICK m \in 1 .. k : s[m].from <= x /\ x < s[m].to
      BY <1>2, <1>3, <1>10, <3>1 DEF RunsOf
    <3>3. m \in 1 .. k + 1  OBVIOUS
    <3> QED  BY <3>2, <3>3
  <2> QED  BY <2>1, <2>2
<1> QED  BY <1>3, <1>6, <1>7, <1>8, <1>9, <1>10 DEF RunsOf

\* The activations of one name.
NameActs(acts, name) == {a \in acts : a.name = name}

\* The runs of a name lie apart, span each activation of it, begin with one and
\* span only time that one of them spans.
Merged(r, acts, name) ==
  /\ r \in Seq(Acts) /\ (NameActs(acts, name) # {} => r # <<>>)
  /\ \A i \in DOMAIN r : r[i].name = name /\ r[i].from <= r[i].to
  /\ \A i, j \in DOMAIN r : i < j => r[i].to < r[j].from
  /\ \A a \in NameActs(acts, name) : \E i \in DOMAIN r : r[i].from <= a.from /\ a.to <= r[i].to
  /\ \A i \in DOMAIN r : \E a \in NameActs(acts, name) : r[i].from = a.from
  /\ \A i \in DOMAIN r : \A x \in Int : r[i].from <= x /\ x < r[i].to =>
       \E a \in NameActs(acts, name) : a.from <= x /\ x < a.to

\* mergeAndPushActivations() merges the activations of each name.
LEMMA RunsMerge ==
  ASSUME NEW acts \in SUBSET Acts, IsFiniteSet(acts), \A a \in acts : a.from <= a.to, NEW name
  PROVE  Merged(Runs(acts, name), acts, name)
<1> DEFINE A == NameActs(acts, name)
<1>1. A \in SUBSET acts /\ \A a \in A : a.name = name /\ a.from <= a.to /\ a.from \in Int
  BY DEF NameActs, Acts
<1>2. IsFiniteSet(A)  BY <1>1, FS_Subset
<1>3. PICK s : s = ByStart(A)  OBVIOUS
<1>4. Runs(acts, name) = FoldLeft(Extend, <<>>, s)  BY <1>3 DEF Runs, NameActs
<1> HIDE DEF A
<1>5. s \in SetToSeqs(A) /\ \A i, j \in DOMAIN s : i < j => s[i].from <= s[j].from
  BY <1>1, <1>2, <1>3, Sorted
<1>6. PICK n \in Nat : /\ n = Cardinality(A) /\ s \in Seq(A) /\ DOMAIN s = 1 .. n
                       /\ \A x \in A : \E i \in DOMAIN s : s[i] = x
  BY <1>2, <1>5, ListedAll
<1>7. \A i \in 1 .. n : s[i] \in A  BY <1>6
<1>8. Timeline(s, n, name)
  <2>1. s \in [1 .. n -> Acts]  BY <1>1, <1>6, <1>7
  <2> QED  BY <1>1, <1>5, <1>6, <1>7, <2>1 DEF Timeline
<1>9. PICK acc : Merges(acc, s, n)  BY <1>6, RunsUnfold
<1>10. /\ acc[0] = <<>> /\ acc[n] = FoldLeft(Extend, <<>>, s)
       /\ \A k \in 1 .. n : acc[k] = Extend(acc[k - 1], s[k])
  BY <1>9 DEF Merges
<1> DEFINE S == {k \in Nat : k <= n => RunsOf(acc[k], s, k, name)}
<1>11. 0 \in S
  <2>1. <<>> \in Seq(Acts) /\ DOMAIN <<>> = {}  OBVIOUS
  <2>2. 1 .. 0 = {}  OBVIOUS
  <2>3. RunsOf(<<>>, s, 0, name)  BY <2>1, <2>2 DEF RunsOf
  <2> QED  BY <1>10, <2>3
<1>12. ASSUME NEW k \in Nat, k \in S PROVE k + 1 \in S
  <2>1. SUFFICES ASSUME k + 1 <= n PROVE RunsOf(acc[k + 1], s, k + 1, name)
    OBVIOUS
  <2>2. RunsOf(acc[k], s, k, name)  BY <1>12, <2>1
  <2>3. acc[k + 1] = Extend(acc[k], s[k + 1])
    <3>1. k + 1 \in 1 .. n /\ (k + 1) - 1 = k  BY <2>1
    <3> QED  BY <1>10, <3>1
  <2>4. PICK r : r = acc[k]  OBVIOUS
  <2>5. CASE r # <<>> /\ s[k + 1].from <= Last(r).to
    <3>1. acc[k + 1] = [r EXCEPT ![Len(r)] = Joined(@, s[k + 1])]  BY <2>3, <2>4, <2>5 DEF Extend
    <3> QED  BY <1>8, <2>1, <2>2, <2>4, <2>5, <3>1, JoinRuns
  <2>6. CASE ~(r # <<>> /\ s[k + 1].from <= Last(r).to)
    <3>1. acc[k + 1] = Append(r, s[k + 1])  BY <2>3, <2>4, <2>6 DEF Extend
    <3> QED  BY <1>8, <2>1, <2>2, <2>4, <2>6, <3>1, AppendRuns
  <2> QED  BY <2>5, <2>6
<1>13. \A k \in Nat : k \in S => k + 1 \in S  BY <1>12
<1> HIDE DEF S
<1>14. n \in S  BY <1>11, <1>13, SetInduction
<1>15. PICK r : r = Runs(acts, name)  OBVIOUS
<1>16. RunsOf(r, s, n, name)  BY <1>4, <1>10, <1>14, <1>15 DEF S
<1>17. A # {} => r # <<>>
  <2>1. A # {} => n > 0  BY <1>6
  <2> QED  BY <1>16, <2>1 DEF RunsOf
<1>18. \A a \in A : \E i \in DOMAIN r : r[i].from <= a.from /\ a.to <= r[i].to
  <2>1. \A m \in 1 .. n : \E i \in DOMAIN r : r[i].from <= s[m].from /\ s[m].to <= r[i].to
    BY <1>16 DEF RunsOf
  <2>2. \A a \in A : \E m \in 1 .. n : s[m] = a  BY <1>6
  <2> QED  BY <2>1, <2>2
<1>19. \A i \in DOMAIN r : \E a \in A : r[i].from = a.from
  BY <1>7, <1>16 DEF RunsOf
<1>20. \A i \in DOMAIN r : \A x \in Int : r[i].from <= x /\ x < r[i].to =>
         \E a \in A : a.from <= x /\ x < a.to
  BY <1>7, <1>16 DEF RunsOf
<1>21. /\ r \in Seq(Acts)
       /\ \A i \in DOMAIN r : r[i].name = name /\ r[i].from <= r[i].to
       /\ \A i, j \in DOMAIN r : i < j => r[i].to < r[j].from
  BY <1>16 DEF RunsOf
<1> QED  BY <1>15, <1>17, <1>18, <1>19, <1>20, <1>21 DEF Merged, A
-----------------------------------------------------------------------------
(* The events of a window.                                                 *)

\* The activation of an event.
ActOf(ev, before) == [name |-> NameOf(ev, before), from |-> ev.from, to |-> ev.to]

\* Once the first post of an activity is noted, the names of its posts stay.
LEMMA NameStays ==
  ASSUME NEW b, NEW c, NEW posts, NEW ev \in posts, Timed(ev), Firsts(b, posts), b \subseteq c,
         \A f, g \in c : SameSlot(f, g) => f = g
  PROVE  NameOf(ev, c) = NameOf(ev, b)
<1>1. PICK f \in b : SameSlot(f, ev)  BY DEF Firsts
<1>2. \A g \in c : SameSlot(g, ev) => g = f  BY <1>1 DEF SameSlot
<1>3. (\E g \in c : SameSlot(g, ev) /\ g.calendar # ev.calendar)
        <=> (\E g \in b : SameSlot(g, ev) /\ g.calendar # ev.calendar)
  BY <1>1, <1>2
<1> QED  BY <1>3 DEF NameOf

\* pushEvent() notes the first post of an activity.
LEMMA NotedFirst ==
  ASSUME NEW b, NEW posts, NEW ev, NEW all, all = posts \cup {ev}, Firsts(b, posts),
         NEW c, c = Noted(ev, b)
  PROVE  /\ Firsts(c, all) /\ b \subseteq c
         /\ Timed(ev) => NameOf(ev, c) = NameOf(ev, b)
<1>1. CASE Timed(ev) /\ ~\E first \in b : SameSlot(first, ev)
  <2>1. c = b \cup {ev}  BY <1>1 DEF Noted
  <2>2. \A f \in b : ~SameSlot(f, ev) /\ ~SameSlot(ev, f)  BY <1>1 DEF SameSlot
  <2>3. SameSlot(ev, ev)  BY DEF SameSlot
  <2>4. \A f, g \in c : SameSlot(f, g) => f = g  BY <2>1, <2>2 DEF Firsts
  <2>5. \A e \in all : Timed(e) => \E first \in c : SameSlot(first, e)
    BY <2>1, <2>3 DEF Firsts
  <2>6. c \subseteq {e \in all : Timed(e)}  BY <1>1, <2>1 DEF Firsts
  <2>7. NameOf(ev, c) = <<ev.program>> /\ NameOf(ev, b) = <<ev.program>>
    BY <2>1, <2>2 DEF NameOf
  <2> QED  BY <2>1, <2>4, <2>5, <2>6, <2>7 DEF Firsts
<1>2. CASE ~(Timed(ev) /\ ~\E first \in b : SameSlot(first, ev))
  <2>1. c = b  BY <1>2 DEF Noted
  <2>2. \A e \in all : Timed(e) => \E first \in b : SameSlot(first, e)
    BY <1>2 DEF Firsts
  <2> QED  BY <2>1, <2>2 DEF Firsts
<1> QED  BY <1>1, <1>2

\* What the events of P made of start, which knew the posts of B.
Parsed(state, start, B, P) ==
  /\ Firsts(state.seen, B \cup P) /\ start.seen \subseteq state.seen
  /\ IsFiniteSet(state.held) /\ start.held \subseteq state.held
  /\ start.names \subseteq state.names
  /\ \A ev \in P : Timed(ev) => /\ ActOf(ev, state.seen) \in state.held
                                /\ NameOf(ev, state.seen) \in state.names
  /\ \A a \in state.held : a \in start.held \/ \E ev \in P : Timed(ev) /\ a = ActOf(ev, state.seen)

\* One event more.
LEMMA PushedOne ==
  ASSUME NEW start, NEW B, NEW P, NEW st, Parsed(st, start, B, P), NEW e, NEW Q, Q = P \cup {e},
         NEW new, new = PushEvent(st, e)
  PROVE  Parsed(new, start, B, Q)
<1>1. PICK c : c = Noted(e, st.seen)  OBVIOUS
<1>2. PICK name : name = NameOf(e, st.seen)  OBVIOUS
<1>3. PICK a : a = [name |-> name, from |-> e.from, to |-> e.to]  OBVIOUS
<1>4. /\ new.seen = c /\ new.names = st.names \cup {name}
      /\ new.held = IF Timed(e) THEN st.held \cup {a} ELSE st.held
  <2>1. new = [seen |-> c, held |-> IF Timed(e) THEN st.held \cup {a} ELSE st.held,
               names |-> st.names \cup {name}]
    BY <1>1, <1>2, <1>3 DEF PushEvent
  <2> QED  BY <2>1
<1>5. B \cup Q = (B \cup P) \cup {e}  OBVIOUS
<1>6. Firsts(st.seen, B \cup P)  BY DEF Parsed
<1>7. Firsts(c, B \cup Q) /\ st.seen \subseteq c /\ (Timed(e) => NameOf(e, c) = name)
  BY <1>1, <1>2, <1>5, <1>6, NotedFirst
<1>8. Timed(e) => a = ActOf(e, c)  BY <1>3, <1>7 DEF ActOf
<1>9. \A ev \in P : Timed(ev) => ActOf(ev, c) = ActOf(ev, st.seen)
                                 /\ NameOf(ev, c) = NameOf(ev, st.seen)
  <2>1. \A f, g \in c : SameSlot(f, g) => f = g  BY <1>7 DEF Firsts
  <2>2. SUFFICES ASSUME NEW ev \in P, Timed(ev)
                 PROVE  ActOf(ev, c) = ActOf(ev, st.seen) /\ NameOf(ev, c) = NameOf(ev, st.seen)
    OBVIOUS
  <2>3. ev \in B \cup P  OBVIOUS
  <2>4. NameOf(ev, c) = NameOf(ev, st.seen)  BY <1>6, <1>7, <2>1, <2>2, <2>3, NameStays
  <2> QED  BY <2>4 DEF ActOf
<1>10. IsFiniteSet(new.held) /\ start.held \subseteq new.held /\ st.held \subseteq new.held
  <2>1. IsFiniteSet(st.held) /\ start.held \subseteq st.held  BY DEF Parsed
  <2>2. IsFiniteSet(st.held \cup {a})  BY <2>1, FS_AddElement
  <2> QED  BY <1>4, <2>1, <2>2
<1>11. ASSUME NEW ev \in Q, Timed(ev)
       PROVE  ActOf(ev, c) \in new.held /\ NameOf(ev, c) \in new.names
  <2>1. CASE ev \in P
    BY <1>4, <1>9, <1>10, <1>11, <2>1 DEF Parsed
  <2>2. CASE ev = e
    BY <1>4, <1>7, <1>8, <1>11, <2>2
  <2> QED  BY <2>1, <2>2
<1>12. ASSUME NEW x \in new.held
       PROVE  x \in start.held \/ \E ev \in Q : Timed(ev) /\ x = ActOf(ev, c)
  <2>1. CASE x \in st.held
    <3>1. x \in start.held \/ \E ev \in P : Timed(ev) /\ x = ActOf(ev, st.seen)
      BY <2>1 DEF Parsed
    <3> QED  BY <1>9, <3>1
  <2>2. CASE x \notin st.held
    <3>1. Timed(e) /\ x = a  BY <1>4, <1>12, <2>2
    <3> QED  BY <1>8, <3>1
  <2> QED  BY <2>1, <2>2
<1>13. start.seen \subseteq c /\ start.names \subseteq new.names  BY <1>4, <1>7 DEF Parsed
<1> QED  BY <1>4, <1>7, <1>10, <1>11, <1>12, <1>13 DEF Parsed

\* parseAndPush() of the posts of a window, in any order.
LEMMA ParsedAll ==
  ASSUME NEW start, NEW B, Firsts(start.seen, B), IsFiniteSet(start.held),
         NEW P, IsFiniteSet(P), NEW order \in SetToSeqs(P)
  PROVE  Parsed(FoldLeft(PushEvent, start, order), start, B, P)
<1>1. PICK n \in Nat : /\ DOMAIN order = 1 .. n /\ order \in Seq(P)
                       /\ \A x \in P : \E i \in DOMAIN order : order[i] = x
  BY ListedAll
<1>2. PICK acc : Parses(acc, start, order, n)  BY <1>1, ParseUnfolds
<1>3. /\ acc[0] = start /\ acc[n] = FoldLeft(PushEvent, start, order)
      /\ \A k \in 1 .. n : acc[k] = PushEvent(acc[k - 1], order[k])
  BY <1>2 DEF Parses
<1> DEFINE First(k) == {order[m] : m \in 1 .. k}
           S == {k \in Nat : k <= n => Parsed(acc[k], start, B, First(k))}
<1>4. 0 \in S
  <2>1. First(0) = {}  OBVIOUS
  <2>2. Parsed(start, start, B, {})  BY DEF Parsed
  <2> QED  BY <1>3, <2>1, <2>2
<1>5. ASSUME NEW k \in Nat, k \in S PROVE k + 1 \in S
  <2>1. SUFFICES ASSUME k + 1 <= n PROVE Parsed(acc[k + 1], start, B, First(k + 1))
    OBVIOUS
  <2>2. Parsed(acc[k], start, B, First(k))  BY <1>5, <2>1
  <2>3. acc[k + 1] = PushEvent(acc[k], order[k + 1])
    <3>1. k + 1 \in 1 .. n /\ (k + 1) - 1 = k  BY <2>1
    <3> QED  BY <1>3, <3>1
  <2>4. First(k + 1) = First(k) \cup {order[k + 1]}  OBVIOUS
  <2> HIDE DEF First
  <2> QED  BY <2>2, <2>3, <2>4, PushedOne
<1>6. \A k \in Nat : k \in S => k + 1 \in S  BY <1>5
<1> HIDE DEF S
<1>7. n \in S  BY <1>4, <1>6, SetInduction
<1>8. Parsed(acc[n], start, B, First(n))  BY <1>7 DEF S
<1>9. First(n) = P  BY <1>1
<1> QED  BY <1>3, <1>8, <1>9
-----------------------------------------------------------------------------
(* What a window pushes and what it holds back.                            *)

\* The places of a run that goes out, of the runs of a name.
OutAt(r, flushAll) == IF flushAll THEN DOMAIN r ELSE 1 .. Len(r) - 1

\* What goes out and what is held back are the runs of the names.
LEMMA OutAndCarry ==
  ASSUME NEW acts \in SUBSET Acts, IsFiniteSet(acts), \A a \in acts : a.from <= a.to,
         NEW flushAll \in BOOLEAN
  PROVE  /\ \A o : o \in Outgoing(acts, flushAll) <=>
                     \E n \in Names(acts) : \E i \in OutAt(Runs(acts, n), flushAll) : o = Runs(acts, n)[i]
         /\ \A c : c \in CarryOver(acts, flushAll) <=>
                     ~flushAll /\ \E n \in Names(acts) : c = Last(Runs(acts, n))
         /\ IsFiniteSet(Outgoing(acts, flushAll)) /\ IsFiniteSet(CarryOver(acts, flushAll))
<1> DEFINE N == Names(acts)
           Out(n) == ToSet(IF flushAll THEN Runs(acts, n) ELSE Front(Runs(acts, n)))
           T == {Out(n) : n \in N}
<1>1. ASSUME NEW n \in N
      PROVE  /\ Out(n) = {Runs(acts, n)[i] : i \in OutAt(Runs(acts, n), flushAll)}
             /\ IsFiniteSet(Out(n))
  <2>1. PICK r : r = Runs(acts, n)  OBVIOUS
  <2>2. r \in Seq(Acts)  BY <2>1, RunsMerge DEF Merged
  <2>3. PICK z \in Nat : z = Len(r) /\ DOMAIN r = 1 .. z  BY <2>2
  <2>4. n \in {a.name : a \in acts}  BY DEF Names
  <2>5. r # <<>>
    <3>1. PICK a \in acts : a.name = n  BY <2>4
    <3>2. NameActs(acts, n) # {}  BY <3>1 DEF NameActs
    <3> QED  BY <2>1, <3>2, RunsMerge DEF Merged
  <2>6. z >= 1  BY <2>2, <2>3, <2>5
  <2>7. PICK d \in Nat : d = (IF flushAll THEN z ELSE z - 1) /\ OutAt(r, flushAll) = 1 .. d
    <3>1. CASE flushAll
      BY <2>3, <3>1 DEF OutAt
    <3>2. CASE ~flushAll
      BY <2>3, <2>6, <3>2 DEF OutAt
    <3> QED  BY <3>1, <3>2
  <2>8. d <= z  BY <2>3, <2>7
  <2>9. PICK q : q = IF flushAll THEN r ELSE Front(r)  OBVIOUS
  <2>10. q \in [1 .. d -> Acts] /\ \A i \in 1 .. d : q[i] = r[i]
    <3>1. CASE flushAll
      BY <2>2, <2>3, <2>7, <2>9, <3>1
    <3>2. CASE ~flushAll
      <4>1. q = SubSeq(r, 1, d)  BY <2>3, <2>7, <2>9, <3>2 DEF Front
      <4>2. \A i \in 1 .. d : r[i] \in Acts  BY <2>2, <2>3, <2>8
      <4>3. PICK t : t = SubSeq(r, 1, d)  OBVIOUS
      <4>4. t \in Seq(Acts) /\ Len(t) = d  BY <2>2, <2>3, <2>8, <4>2, <4>3
      <4>5. \A i \in 1 .. d : t[i] = r[i]  BY <2>2, <2>3, <2>8, <4>3
      <4>6. t \in [1 .. d -> Acts]  BY <4>4
      <4> QED  BY <4>1, <4>3, <4>5, <4>6
    <3> QED  BY <3>1, <3>2
  <2>11. Out(n) = ToSet(q)  BY <2>1, <2>9
  <2>12. ToSet(q) = {r[i] : i \in 1 .. d}  BY <2>10 DEF ToSet
  <2>13. q \in Surjection(1 .. d, ToSet(q))  BY <2>10 DEF Surjection, ToSet
  <2>14. IsFiniteSet(1 .. d)
    <3>1. 1 \in Int /\ d \in Int  OBVIOUS
    <3> QED  BY ONLY <3>1, FS_Interval
  <2>15. IsFiniteSet(ToSet(q))  BY <2>13, <2>14, FS_Surjection
  <2> QED  BY <2>1, <2>7, <2>11, <2>12, <2>15
<1>2. IsFiniteSet(N)
  <2> DEFINE f == [a \in acts |-> a.name]
  <2>1. f \in Surjection(acts, N)  BY DEF Surjection, Names
  <2> HIDE DEF f
  <2> QED  BY <2>1, FS_Surjection
<1>3. Outgoing(acts, flushAll) = UNION T  BY DEF Outgoing
<1>4. IsFiniteSet(T)
  <2> DEFINE f == [n \in N |-> Out(n)]
  <2>1. f \in Surjection(N, T)  BY DEF Surjection
  <2> HIDE DEF f, N, T
  <2> QED  BY <1>2, <2>1, FS_Surjection
<1>5. IsFiniteSet(Outgoing(acts, flushAll))
  <2>1. \A t \in T : IsFiniteSet(t)  BY <1>1
  <2> HIDE DEF T
  <2> QED  BY <1>3, <1>4, <2>1, FS_UNION
<1>6. ASSUME NEW o
      PROVE  o \in Outgoing(acts, flushAll) <=>
               \E n \in N : \E i \in OutAt(Runs(acts, n), flushAll) : o = Runs(acts, n)[i]
  <2>1. o \in UNION T <=> \E n \in N : o \in Out(n)  OBVIOUS
  <2> HIDE DEF N, T, Out
  <2> QED  BY <1>1, <1>3, <2>1
<1>7. IsFiniteSet(CarryOver(acts, flushAll))
  <2> DEFINE f == [n \in N |-> Last(Runs(acts, n))]
             L == {Last(Runs(acts, n)) : n \in N}
  <2>1. f \in Surjection(N, L)  BY DEF Surjection
  <2>2. CarryOver(acts, flushAll) = IF flushAll THEN {} ELSE L  BY DEF CarryOver
  <2> HIDE DEF f, L, N
  <2>3. IsFiniteSet(L)  BY <1>2, <2>1, FS_Surjection
  <2> QED  BY <2>2, <2>3, FS_EmptySet
<1>8. \A c : c \in CarryOver(acts, flushAll) <=>
               ~flushAll /\ \E n \in N : c = Last(Runs(acts, n))
  BY DEF CarryOver
<1> QED  BY <1>5, <1>6, <1>7, <1>8

\* The runs of the names in acts are split into those that go out and those
\* held back, one of a name: the last one, until the last window.
Split(out, carry, acts, flushAll) ==
  /\ out \in SUBSET Acts /\ IsFiniteSet(out) /\ carry \in SUBSET Acts /\ IsFiniteSet(carry)
  /\ \A o \in out \cup carry : o.from <= o.to /\ \E a \in acts : a.name = o.name /\ a.from = o.from
  /\ \A o \in out \cup carry : \A x \in Int : o.from <= x /\ x < o.to =>
       \E a \in acts : a.name = o.name /\ a.from <= x /\ x < a.to
  /\ \A o, p \in out : o.name = p.name /\ o # p => o.to < p.from \/ p.to < o.from
  /\ \A o \in out : \A c \in carry : o.name = c.name => o.to < c.from
  /\ \A c, d \in carry : c.name = d.name => c = d
  /\ \A a \in acts : \E o \in out \cup carry : o.name = a.name /\ o.from <= a.from /\ a.to <= o.to
  /\ flushAll => carry = {}
  /\ ~flushAll => \A o \in out : \E c \in carry : c.name = o.name

\* What goes out and what is held back split the runs.
LEMMA RunsSplit ==
  ASSUME NEW acts \in SUBSET Acts, IsFiniteSet(acts), \A a \in acts : a.from <= a.to,
         NEW flushAll \in BOOLEAN,
         NEW out, out = Outgoing(acts, flushAll), NEW carry, carry = CarryOver(acts, flushAll)
  PROVE  Split(out, carry, acts, flushAll)
<1> DEFINE R(n) == Runs(acts, n)
<1>1. ASSUME NEW n \in Names(acts)
      PROVE  /\ R(n) \in Seq(Acts) /\ Len(R(n)) \in Nat /\ Len(R(n)) >= 1
             /\ DOMAIN R(n) = 1 .. Len(R(n))
             /\ Last(R(n)) = R(n)[Len(R(n))] /\ OutAt(R(n), flushAll) \subseteq DOMAIN R(n)
             /\ Merged(R(n), acts, n)
  <2>1. Merged(R(n), acts, n)  BY RunsMerge
  <2>2. PICK a \in acts : a.name = n  BY DEF Names
  <2>3. NameActs(acts, n) # {}  BY <2>2 DEF NameActs
  <2>4. R(n) \in Seq(Acts) /\ R(n) # <<>>  BY <2>1, <2>3 DEF Merged
  <2> HIDE DEF R
  <2>5. Len(R(n)) \in Nat /\ Len(R(n)) >= 1 /\ DOMAIN R(n) = 1 .. Len(R(n))  BY <2>4
  <2>6. 1 .. Len(R(n)) - 1 \subseteq 1 .. Len(R(n))  BY <2>5
  <2>7. OutAt(R(n), flushAll) \subseteq DOMAIN R(n)  BY <2>5, <2>6 DEF OutAt
  <2>8. Last(R(n)) = R(n)[Len(R(n))]  BY DEF Last
  <2> QED  BY <2>1, <2>4, <2>5, <2>7, <2>8
<1>2. /\ \A o : o \in out <=> \E n \in Names(acts) : \E i \in OutAt(R(n), flushAll) : o = R(n)[i]
      /\ \A c : c \in carry <=> ~flushAll /\ \E n \in Names(acts) : c = Last(R(n))
      /\ IsFiniteSet(out) /\ IsFiniteSet(carry)
  BY OutAndCarry
<1> HIDE DEF R
<1>3. \A n \in Names(acts) : \A i \in DOMAIN R(n) : R(n)[i] \in Acts /\ R(n)[i].name = n
  BY <1>1 DEF Merged
<1>4. ASSUME NEW o \in out
      PROVE  o.name \in Names(acts) /\ \E i \in OutAt(R(o.name), flushAll) : o = R(o.name)[i]
  <2>1. PICK n \in Names(acts) : \E i \in OutAt(R(n), flushAll) : o = R(n)[i]  BY <1>2
  <2>2. o.name = n  BY <1>1, <1>3, <2>1
  <2> QED  BY <2>1, <2>2
<1>5. ASSUME NEW c \in carry
      PROVE  ~flushAll /\ c.name \in Names(acts) /\ c = R(c.name)[Len(R(c.name))]
  <2>1. ~flushAll  BY <1>2
  <2>2. PICK n \in Names(acts) : c = Last(R(n))  BY <1>2
  <2>3. c = R(n)[Len(R(n))] /\ Len(R(n)) \in DOMAIN R(n)  BY <1>1, <2>2
  <2>4. c.name = n  BY <1>3, <2>3
  <2> QED  BY <2>1, <2>3, <2>4
<1>6. ASSUME NEW o \in out \cup carry
      PROVE  o.name \in Names(acts) /\ \E i \in DOMAIN R(o.name) : o = R(o.name)[i]
  <2>1. CASE o \in out
    BY <1>1, <1>4, <2>1
  <2>2. CASE o \in carry
    <3>1. o.name \in Names(acts) /\ o = R(o.name)[Len(R(o.name))]  BY <1>5, <2>2
    <3>2. Len(R(o.name)) \in DOMAIN R(o.name)  BY <1>1, <3>1
    <3> QED  BY <3>1, <3>2
  <2> QED  BY <2>1, <2>2
<1>7. out \in SUBSET Acts /\ carry \in SUBSET Acts  BY <1>3, <1>6
<1>8. ASSUME NEW o \in out \cup carry
      PROVE  /\ o.from <= o.to /\ \E a \in acts : a.name = o.name /\ a.from = o.from
             /\ \A x \in Int : o.from <= x /\ x < o.to =>
                  \E a \in acts : a.name = o.name /\ a.from <= x /\ x < a.to
  <2>1. PICK i \in DOMAIN R(o.name) : o = R(o.name)[i]  BY <1>6
  <2>2. Merged(R(o.name), acts, o.name)  BY <1>1, <1>6
  <2>3. o.from <= o.to  BY <2>1, <2>2 DEF Merged
  <2>4. \E a \in NameActs(acts, o.name) : o.from = a.from  BY <2>1, <2>2 DEF Merged
  <2>5. \A x \in Int : o.from <= x /\ x < o.to =>
          \E a \in NameActs(acts, o.name) : a.from <= x /\ x < a.to
    BY <2>1, <2>2 DEF Merged
  <2> QED  BY <2>3, <2>4, <2>5 DEF NameActs
<1>9. ASSUME NEW o \in out, NEW p \in out, o.name = p.name, o # p
      PROVE  o.to < p.from \/ p.to < o.from
  <2>1. PICK n \in Names(acts) : n = o.name  BY <1>4
  <2>2. PICK i \in DOMAIN R(n) : o = R(n)[i]  BY <1>6, <2>1
  <2>3. PICK j \in DOMAIN R(n) : p = R(n)[j]  BY <1>6, <1>9, <2>1
  <2>4. i \in Nat /\ j \in Nat /\ i # j  BY <1>1, <1>9, <2>2, <2>3
  <2>5. \A k, m \in DOMAIN R(n) : k < m => R(n)[k].to < R(n)[m].from  BY <1>1 DEF Merged
  <2>6. i < j \/ j < i  BY <2>4
  <2> QED  BY <2>2, <2>3, <2>5, <2>6
<1>10. ASSUME NEW o \in out, NEW c \in carry, o.name = c.name
       PROVE  o.to < c.from
  <2>1. PICK n \in Names(acts) : n = o.name  BY <1>4
  <2>2. PICK i \in OutAt(R(n), flushAll) : o = R(n)[i]  BY <1>4, <2>1
  <2>3. ~flushAll /\ c = R(n)[Len(R(n))]  BY <1>5, <1>10, <2>1
  <2>4. i \in 1 .. Len(R(n)) - 1  BY <2>2, <2>3 DEF OutAt
  <2>5. i \in DOMAIN R(n) /\ Len(R(n)) \in DOMAIN R(n) /\ i < Len(R(n))  BY <1>1, <2>4
  <2>6. \A k, m \in DOMAIN R(n) : k < m => R(n)[k].to < R(n)[m].from  BY <1>1 DEF Merged
  <2> QED  BY <2>2, <2>3, <2>5, <2>6
<1>11. \A c, d \in carry : c.name = d.name => c = d  BY <1>5
<1>12. ASSUME NEW a \in acts
       PROVE  \E o \in out \cup carry : o.name = a.name /\ o.from <= a.from /\ a.to <= o.to
  <2>1. PICK n \in Names(acts) : n = a.name  BY DEF Names
  <2>2. a \in NameActs(acts, n)  BY <2>1 DEF NameActs
  <2>3. PICK i \in DOMAIN R(n) : R(n)[i].from <= a.from /\ a.to <= R(n)[i].to
    BY <1>1, <2>2 DEF Merged
  <2>4. PICK o : o = R(n)[i]  OBVIOUS
  <2>5. o.name = n  BY <1>3, <2>4
  <2>6. o \in out \cup carry
    <3>1. CASE i \in OutAt(R(n), flushAll)
      BY <1>2, <2>4, <3>1
    <3>2. CASE i \notin OutAt(R(n), flushAll)
      <4>1. ~flushAll  BY <3>2 DEF OutAt
      <4>2. i = Len(R(n))  BY <1>1, <3>2, <4>1 DEF OutAt
      <4>3. o = Last(R(n))  BY <1>1, <2>4, <4>2
      <4> QED  BY <1>2, <4>1, <4>3
    <3> QED  BY <3>1, <3>2
  <2> QED  BY <2>1, <2>3, <2>4, <2>5, <2>6
<1>13. flushAll => carry = {}  BY <1>5
<1>14. ASSUME ~flushAll, NEW o \in out
       PROVE  \E c \in carry : c.name = o.name
  <2>1. PICK n \in Names(acts) : n = o.name  BY <1>4
  <2>2. PICK c : c = Last(R(n))  OBVIOUS
  <2>3. c \in carry  BY <1>2, <1>14, <2>2
  <2>4. Len(R(n)) \in DOMAIN R(n) /\ c = R(n)[Len(R(n))]  BY <1>1, <2>2
  <2>5. c.name = n  BY <1>3, <2>4
  <2> QED  BY <2>1, <2>3, <2>5
<1> QED
  BY <1>2, <1>7, <1>8, <1>9, <1>10, <1>11, <1>12, <1>13, <1>14 DEF Split

-----------------------------------------------------------------------------
(* The step of a window.                                                   *)

\* The window ends after its start, within the range.
LEMMA WindowEnd ==
  ASSUME CalendarTypes, winStart < RangeEnd
  PROVE  /\ WinEnd \in Nat /\ winStart < WinEnd /\ WinEnd <= RangeEnd
         /\ winStart + WindowLength \in Nat
         /\ WinEnd >= RangeEnd <=> winStart + WindowLength >= RangeEnd
         /\ winStart + WindowLength < RangeEnd => WinEnd = winStart + WindowLength
<1>1. PICK a : a = winStart + WindowLength  OBVIOUS
<1>2. RangeEnd \in Nat /\ WindowLength \in Nat \ {0}  BY CalendarAssumption
<1>3. winStart \in Nat  BY DEF CalendarTypes
<1>4. a \in Nat /\ winStart < a  BY <1>1, <1>2, <1>3
<1>5. PICK w : w = Min({a, RangeEnd})  OBVIOUS
<1>6. w \in {a, RangeEnd} /\ a >= w /\ RangeEnd >= w  BY <1>2, <1>4, <1>5, MinOfTwo
<1>7. WinEnd = w  BY <1>1, <1>5 DEF WinEnd
<1> QED  BY <1>1, <1>2, <1>3, <1>4, <1>6, <1>7

\* What pushEvent() made of a window's answer, before the merge: the names stay
\* and each activation is backed, begins in or before the window and after what
\* was pushed of its name.
ParsedWindow(st) ==
  /\ st.held \in SUBSET Acts /\ IsFiniteSet(st.held) /\ held \subseteq st.held
  /\ Firsts(st.seen, fetched \cup Answer) /\ configured \subseteq st.names
  /\ \A ev \in fetched : Timed(ev) => NameOf(ev, st.seen) = NameOf(ev, seenPosts)
  /\ \A ev \in Answer : Timed(ev) => ActOf(ev, st.seen) \in st.held
  /\ \A a \in st.held : Backed(a, st.names, fetched \cup Answer) /\ a.from < WinEnd
  /\ \A p \in ToSet(activated) : \A a \in st.held : p.name = a.name => p.to < a.from

LEMMA WindowParsed ==
  ASSUME CalendarIInv, reader = "scanning", winStart < RangeEnd,
         NEW order \in SetToSeqs(Answer), NEW st,
         st = FoldLeft(PushEvent, [seen |-> seenPosts, held |-> held, names |-> configured], order)
  PROVE  ParsedWindow(st)
<1>1. PICK start : start = [seen |-> seenPosts, held |-> held, names |-> configured]  OBVIOUS
<1>2. start.seen = seenPosts /\ start.held = held /\ start.names = configured  BY <1>1
<1>3. CalendarTypes /\ SeenInv /\ BackedInv /\ AheadInv  BY DEF CalendarIInv
<1>4. calendar \in Calendars /\ Answer \subseteq calendar  BY <1>3 DEF CalendarTypes, Answer
<1>5. /\ IsFiniteSet(calendar)
      /\ \A ev \in calendar : Timed(ev) => ev.from \in Int /\ ev.to \in Int /\ ev.from <= ev.to
  BY <1>4, CalendarAssumption
<1>6. IsFiniteSet(Answer)  BY <1>4, <1>5, FS_Subset
<1>7. Firsts(seenPosts, fetched) /\ IsFiniteSet(held) /\ fetched \subseteq calendar
  BY <1>3 DEF SeenInv, CalendarTypes
<1>8. Parsed(st, start, fetched, Answer)
  <2>1. Parsed(FoldLeft(PushEvent, start, order), start, fetched, Answer)
    BY <1>2, <1>6, <1>7, ParsedAll
  <2> QED  BY <1>1, <2>1
<1>9. /\ Firsts(st.seen, fetched \cup Answer) /\ seenPosts \subseteq st.seen
      /\ IsFiniteSet(st.held) /\ held \subseteq st.held /\ configured \subseteq st.names
      /\ \A ev \in Answer : Timed(ev) => /\ ActOf(ev, st.seen) \in st.held
                                         /\ NameOf(ev, st.seen) \in st.names
      /\ \A a \in st.held : a \in held \/ \E ev \in Answer : Timed(ev) /\ a = ActOf(ev, st.seen)
  BY <1>2, <1>8 DEF Parsed
<1>10. \A ev \in fetched : Timed(ev) => NameOf(ev, st.seen) = NameOf(ev, seenPosts)
  <2>1. \A f, g \in st.seen : SameSlot(f, g) => f = g  BY <1>9 DEF Firsts
  <2> QED  BY <1>7, <1>9, <2>1, NameStays
<1>11. ASSUME NEW ev \in Answer, Timed(ev), NEW a, a = ActOf(ev, st.seen)
       PROVE  /\ a \in Acts /\ a.name = NameOf(ev, st.seen) /\ a.from = ev.from /\ a.to = ev.to
              /\ a.name[1] = ev.program
  <2>1. a = [name |-> NameOf(ev, st.seen), from |-> ev.from, to |-> ev.to]  BY <1>11 DEF ActOf
  <2>2. NameOf(ev, st.seen) \in {<<ev.program>>, <<ev.program, ev.calendar>>}  BY DEF NameOf
  <2>3. NameOf(ev, st.seen) \in ActNames
    <3>1. PICK T : T = UNION {{<<e.program>>, <<e.program, e.calendar>>} : e \in calendar}
      OBVIOUS
    <3>2. NameOf(ev, st.seen) \in T  BY <1>4, <2>2, <3>1
    <3>3. T \subseteq ActNames  BY <1>4, <3>1 DEF ActNames
    <3> QED  BY <3>2, <3>3
  <2>4. ev.from \in Int /\ ev.to \in Int  BY <1>4, <1>5, <1>11
  <2>5. a \in Acts  BY <2>1, <2>3, <2>4 DEF Acts
  <2>6. NameOf(ev, st.seen)[1] = ev.program  BY <2>2
  <2> QED  BY <2>1, <2>5, <2>6
<1>12. st.held \in SUBSET Acts
  <2>1. held \in SUBSET Acts  BY <1>3 DEF CalendarTypes
  <2> QED  BY <1>9, <1>11, <2>1
<1>13. ASSUME NEW a \in st.held
       PROVE  Backed(a, st.names, fetched \cup Answer)
  <2>1. CASE a \in held
    <3>1. Backed(a, configured, fetched)  BY <1>3, <2>1 DEF BackedInv
    <3> QED  BY <1>9, <3>1 DEF Backed
  <2>2. ASSUME NEW ev \in Answer, Timed(ev), a = ActOf(ev, st.seen)
        PROVE  Backed(a, st.names, fetched \cup Answer)
    <3>1. /\ a.from = ev.from /\ a.to = ev.to /\ a.name[1] = ev.program
          /\ a.name = NameOf(ev, st.seen)
      BY <1>11, <2>2
    <3>2. ev.from \in Int /\ ev.to \in Int /\ ev.from <= ev.to  BY <1>4, <1>5, <2>2
    <3>3. a.name \in st.names  BY <1>9, <2>2, <3>1
    <3>4. \A x \in a.from .. a.to - 1 : ev.from <= x /\ x < ev.to  BY <3>1, <3>2
    <3>5. a.from <= a.to  BY <3>1, <3>2
    <3>6. ev \in fetched \cup Answer /\ ev.program = a.name[1]  BY <3>1
    <3> QED  BY <2>2, <3>3, <3>4, <3>5, <3>6 DEF Backed
  <2> QED  BY <1>9, <2>1, <2>2
<1>14. winStart < WinEnd /\ winStart \in Nat /\ WinEnd \in Nat
  BY <1>3, WindowEnd DEF CalendarTypes
<1>15. ASSUME NEW a \in st.held
       PROVE  a.from < WinEnd
  <2>1. CASE a \in held
    <3>1. a.from < winStart /\ a.from \in Int  BY <1>3, <1>12, <2>1 DEF AheadInv, Acts
    <3> HIDE DEF WinEnd
    <3> QED  BY <1>14, <3>1
  <2>2. ASSUME NEW ev \in Answer, Timed(ev), a = ActOf(ev, st.seen)
        PROVE  a.from < WinEnd
    <3>1. a.from = ev.from  BY <1>11, <2>2
    <3>2. ev.from < WinEnd  BY <2>2 DEF Answer
    <3> QED  BY <3>1, <3>2
  <2> QED  BY <1>9, <2>1, <2>2
<1>16. ASSUME NEW p \in ToSet(activated), NEW a \in st.held, p.name = a.name
       PROVE  p.to < a.from
  <2>1. p.to < winStart /\ \A h \in held : p.name = h.name => p.to < h.from
    BY <1>3 DEF AheadInv
  <2>2. p \in Acts
    <3>1. activated \in Seq(Acts)  BY <1>3 DEF CalendarTypes
    <3> QED  BY <3>1 DEF ToSet
  <2>3. p.to \in Int /\ a.from \in Int  BY <1>12, <2>2 DEF Acts
  <2>4. CASE a \in held
    BY <1>16, <2>1, <2>4
  <2>5. ASSUME NEW ev \in Answer, Timed(ev), a = ActOf(ev, st.seen)
        PROVE  p.to < a.from
    <3>1. a.from = ev.from /\ a.name = NameOf(ev, st.seen)  BY <1>11, <2>5
    <3>2. ev \in calendar /\ ev.to >= winStart  BY <1>4, <2>5 DEF Answer
    <3>3. CASE ev.from >= winStart
      BY <1>14, <2>1, <2>3, <3>1, <3>3
    <3>4. CASE ev.from < winStart
      <4>1. winStart > 0
        <5>1. winStart = 0 => activated = <<>>  BY <1>3 DEF AheadInv
        <5>2. activated # <<>>  BY DEF ToSet
        <5> QED  BY <1>14, <5>1, <5>2
      <4>2. ev \in fetched /\ \E h \in held : Spans(h, ev, seenPosts)
        BY <1>3, <2>5, <3>2, <3>4, <4>1 DEF AheadInv
      <4>3. PICK h \in held : Spans(h, ev, seenPosts)  BY <4>2
      <4>4. h.name = a.name  BY <1>10, <2>5, <3>1, <4>2, <4>3 DEF Spans
      <4>5. p.to < h.from  BY <1>16, <2>1, <4>4
      <4>6. h.from <= ev.from /\ h.from \in Int  BY <1>9, <1>12, <4>3 DEF Spans, Acts
      <4> QED  BY <2>3, <3>1, <4>5, <4>6
    <3>5. ev.from \in Int  BY <1>5, <2>5, <3>2
    <3> QED  BY <1>14, <3>3, <3>4, <3>5
  <2> QED  BY <1>9, <2>4, <2>5
<1> QED
  BY <1>9, <1>10, <1>12, <1>13, <1>15, <1>16 DEF ParsedWindow

\* What goes out is appended: it stays apart from what was pushed before.
LEMMA ApartAppends ==
  ASSUME NEW s \in Seq(Acts), Apart(s), NEW S \in SUBSET Acts, IsFiniteSet(S),
         \A o, p \in S : o.name = p.name /\ o # p => o.to < p.from \/ p.to < o.from,
         \A a \in ToSet(s) : \A o \in S : a.name = o.name => a.to < o.from,
         NEW t, t = s \o SetToSeq(S)
  PROVE  t \in Seq(Acts) /\ ToSet(t) = ToSet(s) \cup S /\ Apart(t)
<1>1. PICK q : q = SetToSeq(S)  OBVIOUS
<1>2. PICK n \in Nat : /\ n = Cardinality(S) /\ q \in Seq(S) /\ DOMAIN q = 1 .. n /\ Len(q) = n
                       /\ \A x \in S : \E i \in DOMAIN q : q[i] = x
                       /\ \A i, j \in DOMAIN q : q[i] = q[j] => i = j
  BY <1>1, SetToSeqAll, ListedAll
<1>3. PICK m \in Nat : m = Len(s) /\ DOMAIN s = 1 .. m  OBVIOUS
<1>4. \A i \in 1 .. n : q[i] \in S  BY <1>2
<1>5. q \in Seq(Acts)
  <2>1. \A i \in 1 .. n : q[i] \in Acts  BY <1>4
  <2> QED  BY <1>2, <2>1
<1>6. t \in Seq(Acts) /\ DOMAIN t = 1 .. m + n  BY <1>1, <1>2, <1>3, <1>5
<1>7. \A i \in 1 .. m : t[i] = s[i]  BY <1>1, <1>2, <1>3, <1>5
<1>8. \A i \in 1 .. n : t[m + i] = q[i]  BY <1>1, <1>2, <1>3, <1>5
<1>9. ASSUME NEW i \in 1 .. m + n
      PROVE  i \in 1 .. m \/ \E k \in 1 .. n : i = m + k
  <2>1. CASE i <= m
    BY <2>1
  <2>2. CASE i > m
    <3>1. i - m \in 1 .. n /\ i = m + (i - m)  BY <2>2
    <3> QED  BY <3>1
  <2> QED  BY <2>1, <2>2
<1>10. ToSet(t) = ToSet(s) \cup S
  <2>1. ASSUME NEW x \in ToSet(t)
        PROVE  x \in ToSet(s) \cup S
    <3>1. PICK i \in 1 .. m + n : x = t[i]  BY <1>6 DEF ToSet
    <3>2. CASE i \in 1 .. m
      BY <1>3, <1>7, <3>1, <3>2 DEF ToSet
    <3>3. ASSUME NEW k \in 1 .. n, i = m + k
          PROVE  x \in S
      BY <1>4, <1>8, <3>1, <3>3
    <3> QED  BY <1>9, <3>2, <3>3
  <2>2. ASSUME NEW x \in ToSet(s)
        PROVE  x \in ToSet(t)
    <3>1. PICK i \in 1 .. m : x = s[i]  BY <1>3 DEF ToSet
    <3>2. i \in 1 .. m + n  BY ONLY m \in Nat, n \in Nat, i \in 1 .. m
    <3>3. x = t[i]  BY <1>7, <3>1
    <3> QED  BY <1>6, <3>2, <3>3 DEF ToSet
  <2>3. ASSUME NEW x \in S
        PROVE  x \in ToSet(t)
    <3>1. PICK k \in 1 .. n : x = q[k]  BY <1>2
    <3>2. m + k \in 1 .. m + n  BY ONLY m \in Nat, n \in Nat, k \in 1 .. n
    <3>3. x = t[m + k]  BY <1>8, <3>1
    <3> QED  BY <1>6, <3>2, <3>3 DEF ToSet
  <2> QED  BY <2>1, <2>2, <2>3
<1>11. ASSUME NEW i \in 1 .. m, NEW j \in 1 .. n, s[i].name = q[j].name
       PROVE  s[i].to < q[j].from
  BY <1>3, <1>4, <1>11 DEF ToSet
<1>12. ASSUME NEW i \in 1 .. m + n, NEW j \in 1 .. m + n, i # j, t[i].name = t[j].name
       PROVE  t[i].to < t[j].from \/ t[j].to < t[i].from
  <2>1. CASE i \in 1 .. m /\ j \in 1 .. m
    BY <1>3, <1>7, <1>12, <2>1 DEF Apart
  <2>2. ASSUME i \in 1 .. m, NEW k \in 1 .. n, j = m + k
        PROVE  t[i].to < t[j].from
    BY <1>7, <1>8, <1>11, <1>12, <2>2
  <2>3. ASSUME j \in 1 .. m, NEW k \in 1 .. n, i = m + k
        PROVE  t[j].to < t[i].from
    BY <1>7, <1>8, <1>11, <1>12, <2>3
  <2>4. ASSUME NEW k \in 1 .. n, i = m + k, NEW l \in 1 .. n, j = m + l
        PROVE  t[i].to < t[j].from \/ t[j].to < t[i].from
    <3>1. t[i] = q[k] /\ t[j] = q[l]  BY <1>8, <2>4
    <3>2. k # l  BY <1>12, <2>4
    <3>3. q[k] # q[l]  BY <1>2, <3>2
    <3> QED  BY <1>4, <1>12, <3>1, <3>3
  <2> QED  BY <1>9, <2>1, <2>2, <2>3, <2>4
<1>13. Apart(t)  BY <1>6, <1>12 DEF Apart
<1> QED  BY <1>6, <1>10, <1>13

\* A run is backed as the activations it is made of are.
LEMMA RunsBacked ==
  ASSUME NEW acts \in SUBSET Acts, NEW names, NEW posts, \A a \in acts : Backed(a, names, posts),
         NEW out, NEW carry, NEW flushAll, Split(out, carry, acts, flushAll),
         NEW o \in out \cup carry
  PROVE  Backed(o, names, posts)
<1>1. o \in Acts /\ o.from <= o.to  BY DEF Split
<1>2. o.name \in names
  <2>1. PICK a \in acts : a.name = o.name  BY DEF Split
  <2> QED  BY <2>1 DEF Backed
<1>3. ASSUME NEW x \in o.from .. o.to - 1
      PROVE  \E ev \in posts : Timed(ev) /\ ev.program = o.name[1] /\ ev.from <= x /\ x < ev.to
  <2>1. o.from \in Int /\ o.to \in Int  BY <1>1 DEF Acts
  <2>2. x \in Int /\ o.from <= x /\ x < o.to  BY <2>1
  <2>3. PICK a \in acts : a.name = o.name /\ a.from <= x /\ x < a.to  BY <2>2 DEF Split
  <2>4. a.from \in Int /\ a.to \in Int  BY DEF Acts
  <2>5. x \in a.from .. a.to - 1  BY <2>2, <2>3, <2>4
  <2> QED  BY <2>3, <2>5 DEF Backed
<1> QED  BY <1>1, <1>2, <1>3 DEF Backed

\* The step of a window, in its parts.
WindowCut(st, out, carry, flushAll) ==
  /\ ParsedWindow(st) /\ Split(out, carry, st.held, flushAll)
  /\ flushAll \in BOOLEAN /\ flushAll <=> WinEnd >= RangeEnd
  /\ reader = "scanning" /\ winStart < RangeEnd
  /\ seenPosts' = st.seen /\ configured' = st.names /\ held' = carry
  /\ activated' \in Seq(Acts) /\ Apart(activated')
  /\ ToSet(activated') = ToSet(activated) \cup out
  /\ fetched' = fetched \cup Answer /\ winStart' = winStart + WindowLength
  /\ UNCHANGED <<calendar, oneShot, reader, intact, scans, httpFaults>>

LEMMA WindowParts ==
  ASSUME CalendarIInv, Window
  PROVE  \E st, out, carry, flushAll : WindowCut(st, out, carry, flushAll)
<1>1. reader = "scanning" /\ winStart < RangeEnd  BY DEF Window
<1>2. PICK order \in SetToSeqs(Answer) :
        LET parsed   == FoldLeft(PushEvent,
                                 [seen |-> seenPosts, held |-> held, names |-> configured], order)
            flushAll == WinEnd >= RangeEnd
        IN  /\ seenPosts' = parsed.seen
            /\ configured' = parsed.names
            /\ activated' = activated \o SetToSeq(Outgoing(parsed.held, flushAll))
            /\ held' = CarryOver(parsed.held, flushAll)
  BY DEF Window
<1>3. PICK st : st = FoldLeft(PushEvent, [seen |-> seenPosts, held |-> held, names |-> configured],
                              order)
  OBVIOUS
<1>4. PICK flushAll \in BOOLEAN : flushAll <=> WinEnd >= RangeEnd  OBVIOUS
<1>5. flushAll = (WinEnd >= RangeEnd)  BY <1>4
<1>6. PICK out, carry : out = Outgoing(st.held, flushAll) /\ carry = CarryOver(st.held, flushAll)
  OBVIOUS
<1>7. /\ seenPosts' = st.seen /\ configured' = st.names /\ held' = carry
      /\ activated' = activated \o SetToSeq(out)
  BY <1>2, <1>3, <1>5, <1>6
<1>8. ParsedWindow(st)  BY <1>1, <1>3, WindowParsed
<1>9. st.held \in SUBSET Acts /\ IsFiniteSet(st.held) /\ \A a \in st.held : a.from <= a.to
  BY <1>8 DEF ParsedWindow, Backed
<1>10. Split(out, carry, st.held, flushAll)  BY <1>6, <1>9, RunsSplit
<1>11. activated \in Seq(Acts) /\ Apart(activated)  BY DEF CalendarIInv, CalendarTypes
<1>12. out \in SUBSET Acts /\ IsFiniteSet(out)
       /\ \A o, p \in out : o.name = p.name /\ o # p => o.to < p.from \/ p.to < o.from
  BY <1>10 DEF Split
<1>13. ASSUME NEW p \in ToSet(activated), NEW o \in out, p.name = o.name
       PROVE  p.to < o.from
  <2>1. PICK a \in st.held : a.name = o.name /\ a.from = o.from  BY <1>10 DEF Split
  <2> QED  BY <1>8, <1>13, <2>1 DEF ParsedWindow
<1>14. /\ activated' \in Seq(Acts) /\ ToSet(activated') = ToSet(activated) \cup out
       /\ Apart(activated')
  BY <1>7, <1>11, <1>12, <1>13, ApartAppends
<1>15. /\ fetched' = fetched \cup Answer /\ winStart' = winStart + WindowLength
       /\ UNCHANGED <<calendar, oneShot, reader, intact, scans, httpFaults>>
  BY DEF Window
<1>16. WindowCut(st, out, carry, flushAll)
  BY <1>1, <1>4, <1>7, <1>8, <1>10, <1>14, <1>15 DEF WindowCut
<1> QED  BY <1>16

\* Types, first posts, backing and separation after a window.
LEMMA WindowKeepsParts ==
  ASSUME CalendarIInv, NEW st, NEW out, NEW carry, NEW flushAll,
         WindowCut(st, out, carry, flushAll)
  PROVE  CalendarTypes' /\ SeenInv' /\ BackedInv' /\ Apart(activated)'
<1>1. /\ ParsedWindow(st) /\ Split(out, carry, st.held, flushAll)
      /\ seenPosts' = st.seen /\ configured' = st.names /\ held' = carry
      /\ activated' \in Seq(Acts) /\ Apart(activated')
      /\ ToSet(activated') = ToSet(activated) \cup out
      /\ fetched' = fetched \cup Answer /\ winStart' = winStart + WindowLength
      /\ calendar' = calendar /\ intact' = intact /\ winStart < RangeEnd
  BY DEF WindowCut
<1>2. CalendarTypes /\ BackedInv  BY DEF CalendarIInv
<1>3. CalendarTypes'
  <2>1. winStart' \in Nat  BY <1>1, <1>2, WindowEnd
  <2>2. fetched' \in SUBSET calendar'
    <3>1. fetched \in SUBSET calendar  BY <1>2 DEF CalendarTypes
    <3>2. Answer \subseteq calendar  BY DEF Answer
    <3> QED  BY <1>1, <3>1, <3>2
  <2>3. held' \in SUBSET Acts /\ IsFiniteSet(held')  BY <1>1 DEF Split
  <2>4. calendar' \in Calendars /\ intact' \in BOOLEAN  BY <1>1, <1>2 DEF CalendarTypes
  <2>5. activated' \in Seq(Acts)  BY <1>1
  <2> QED  BY <2>1, <2>2, <2>3, <2>4, <2>5 DEF CalendarTypes, Acts, ActNames
<1>4. SeenInv'
  <2>1. Firsts(seenPosts', fetched')  BY <1>1 DEF ParsedWindow
  <2> QED  BY <2>1 DEF SeenInv, Firsts, Timed, SameSlot
<1>5. BackedInv'
  <2>1. ASSUME NEW a \in held' \cup ToSet(activated')
        PROVE  Backed(a, configured', fetched')
    <3>1. CASE a \in ToSet(activated)
      <4>1. Backed(a, configured, fetched)  BY <1>2, <3>1 DEF BackedInv
      <4>2. configured \subseteq configured' /\ fetched \subseteq fetched'
        BY <1>1 DEF ParsedWindow
      <4> QED  BY <4>1, <4>2 DEF Backed
    <3>2. CASE a \in out \cup carry
      <4>1. st.held \in SUBSET Acts /\ \A b \in st.held : Backed(b, configured', fetched')
        BY <1>1 DEF ParsedWindow
      <4> QED  BY <1>1, <3>2, <4>1, RunsBacked
    <3> QED  BY <1>1, <3>1, <3>2
  <2> QED  BY <2>1 DEF BackedInv, Backed, Timed, NoTime, ToSet
<1>6. Apart(activated)'  BY <1>1 DEF Apart
<1> QED  BY <1>3, <1>4, <1>5, <1>6

\* What is ahead after a window.
LEMMA WindowKeepsAhead ==
  ASSUME CalendarIInv, NEW st, NEW out, NEW carry, NEW flushAll,
         WindowCut(st, out, carry, flushAll)
  PROVE  AheadInv'
<1>1. SUFFICES ASSUME reader' = "scanning", winStart' < RangeEnd
               PROVE  /\ intact'
                      /\ \A a \in ToSet(activated') :
                           a.to < winStart' /\ \A h \in held' : a.name = h.name => a.to < h.from
                      /\ \A g, h \in held' : g.name = h.name => g = h
                      /\ \A h \in held' : h.from < winStart'
                      /\ winStart' = 0 => activated' = <<>> /\ held' = {}
                      /\ winStart' > 0 =>
                           \A ev \in calendar' :
                             Timed(ev) /\ ev.from < winStart' /\ ev.to >= winStart' =>
                               ev \in fetched' /\ \E h \in held' : Spans(h, ev, seenPosts')
  BY DEF AheadInv, Timed, NoTime, Spans, NameOf, SameSlot, ToSet
<1>2. /\ ParsedWindow(st) /\ Split(out, carry, st.held, flushAll)
      /\ flushAll \in BOOLEAN /\ flushAll <=> WinEnd >= RangeEnd
      /\ reader = "scanning" /\ winStart < RangeEnd
      /\ seenPosts' = st.seen /\ held' = carry
      /\ ToSet(activated') = ToSet(activated) \cup out
      /\ fetched' = fetched \cup Answer /\ winStart' = winStart + WindowLength
      /\ calendar' = calendar /\ intact' = intact
  BY DEF WindowCut
<1>3. CalendarTypes /\ AheadInv  BY DEF CalendarIInv
<1>4. PICK w : w = WinEnd  OBVIOUS
<1>5. /\ w \in Nat /\ winStart < w /\ w = winStart' /\ ~(w >= RangeEnd) /\ winStart \in Nat
  <2>1. winStart < RangeEnd /\ winStart + WindowLength = winStart'  BY <1>2
  <2>2. winStart + WindowLength < RangeEnd  BY <1>1, <2>1
  <2>3. w = winStart + WindowLength /\ w \in Nat /\ winStart < w
    BY <1>3, <1>4, <2>1, <2>2, WindowEnd
  <2>4. RangeEnd \in Nat /\ winStart \in Nat  BY <1>3, CalendarAssumption DEF CalendarTypes
  <2> QED  BY <2>1, <2>2, <2>3, <2>4
<1>6. ~flushAll  BY <1>2, <1>4, <1>5
<1>7. st.held \in SUBSET Acts /\ out \in SUBSET Acts /\ carry \in SUBSET Acts
  BY <1>2 DEF ParsedWindow, Split
<1>8. ASSUME NEW c \in carry
      PROVE  c.from < w /\ \E a \in st.held : a.name = c.name /\ a.from = c.from
  <2>1. PICK a \in st.held : a.name = c.name /\ a.from = c.from  BY <1>2 DEF Split
  <2> QED  BY <1>2, <1>4, <2>1 DEF ParsedWindow
<1>9. ASSUME NEW o \in out
      PROVE  o.to < w
  <2>1. PICK c \in carry : c.name = o.name  BY <1>2, <1>6 DEF Split
  <2>2. o.to < c.from  BY <1>2, <2>1 DEF Split
  <2>3. o.to \in Int /\ c.from \in Int /\ c.from < w  BY <1>7, <1>8 DEF Acts
  <2> QED  BY <1>5, <2>2, <2>3
<1>10. ASSUME NEW p \in ToSet(activated)
       PROVE  p.to < w /\ \A c \in carry : p.name = c.name => p.to < c.from
  <2>1. p.to < winStart  BY <1>2, <1>3 DEF AheadInv
  <2>2. activated \in Seq(Acts)  BY <1>3 DEF CalendarTypes
  <2>3. p \in Acts /\ p.to \in Int
    <3>1. p \in Acts  BY <2>2 DEF ToSet
    <3> QED  BY <3>1 DEF Acts
  <2>4. p.to < w  BY <1>5, <2>1, <2>3
  <2>5. ASSUME NEW c \in carry, p.name = c.name
        PROVE  p.to < c.from
    <3>1. PICK a \in st.held : a.name = c.name /\ a.from = c.from  BY <1>8
    <3> QED  BY <1>2, <2>5, <3>1 DEF ParsedWindow
  <2> QED  BY <2>4, <2>5
<1>11. \A a \in ToSet(activated') :
         a.to < winStart' /\ \A h \in held' : a.name = h.name => a.to < h.from
  <2>1. \A o \in out : \A c \in carry : o.name = c.name => o.to < c.from  BY <1>2 DEF Split
  <2> QED  BY <1>2, <1>5, <1>9, <1>10, <2>1
<1>12. \A g, h \in held' : g.name = h.name => g = h  BY <1>2 DEF Split
<1>13. \A h \in held' : h.from < winStart'  BY <1>2, <1>5, <1>8
<1>14. ASSUME NEW ev \in calendar', Timed(ev), ev.from < winStart', ev.to >= winStart'
       PROVE  ev \in fetched' /\ \E h \in held' : Spans(h, ev, seenPosts')
  <2>1. calendar \in Calendars  BY <1>3 DEF CalendarTypes
  <2>2. ev \in calendar /\ ev.from \in Int /\ ev.to \in Int
    BY <1>2, <1>14, <2>1, CalendarAssumption
  <2>3. ev.to >= winStart  BY <1>5, <1>14, <2>2
  <2>4. ev \in Answer  BY <1>4, <1>5, <1>14, <2>2, <2>3 DEF Answer
  <2>5. PICK a : a = ActOf(ev, st.seen)  OBVIOUS
  <2>6. a \in st.held  BY <1>2, <1>14, <2>4, <2>5 DEF ParsedWindow
  <2>7. a.name = NameOf(ev, st.seen) /\ a.from = ev.from /\ a.to = ev.to  BY <2>5 DEF ActOf
  <2>8. PICK o \in out \cup carry : o.name = a.name /\ o.from <= a.from /\ a.to <= o.to
    BY <1>2, <2>6 DEF Split
  <2>9. o \notin out
    <3>1. o.to \in Int  BY <1>7, <2>8 DEF Acts
    <3>2. o.to >= w  BY <1>5, <1>14, <2>2, <2>7, <2>8, <3>1
    <3> QED  BY <1>5, <1>9, <3>1, <3>2
  <2>10. Spans(o, ev, seenPosts')  BY <1>2, <2>7, <2>8 DEF Spans
  <2> QED  BY <1>2, <2>4, <2>8, <2>9, <2>10
<1>15. intact'  BY <1>2, <1>3 DEF AheadInv
<1>16. winStart' # 0  BY <1>5
<1> QED  BY <1>11, <1>12, <1>13, <1>14, <1>15, <1>16

\* Every event fetched has its activation after a window.
LEMMA WindowKeepsCover ==
  ASSUME CalendarIInv, NEW st, NEW out, NEW carry, NEW flushAll,
         WindowCut(st, out, carry, flushAll)
  PROVE  EventsCovered'
<1>1. /\ ParsedWindow(st) /\ Split(out, carry, st.held, flushAll)
      /\ flushAll \in BOOLEAN /\ flushAll <=> WinEnd >= RangeEnd
      /\ reader = "scanning" /\ winStart < RangeEnd
      /\ seenPosts' = st.seen /\ held' = carry
      /\ ToSet(activated') = ToSet(activated) \cup out
      /\ fetched' = fetched \cup Answer /\ winStart' = winStart + WindowLength
      /\ intact' = intact
  BY DEF WindowCut
<1>2. CalendarTypes /\ EventsCovered  BY DEF CalendarIInv
<1>3. winStart' >= RangeEnd => held' = {}
  <2>1. winStart' >= RangeEnd => flushAll  BY <1>1, <1>2, WindowEnd
  <2> QED  BY <1>1, <2>1 DEF Split
<1>4. ASSUME intact', NEW ev \in fetched', Timed(ev)
      PROVE  \E a \in held' \cup ToSet(activated') : Spans(a, ev, seenPosts')
  <2>1. ASSUME NEW b \in st.held, Spans(b, ev, st.seen)
        PROVE  \E a \in out \cup carry : Spans(a, ev, st.seen)
    <3>1. PICK a \in out \cup carry : a.name = b.name /\ a.from <= b.from /\ b.to <= a.to
      BY <1>1 DEF Split
    <3>2. b \in Acts /\ a \in Acts  BY <1>1 DEF Split, ParsedWindow
    <3>3. ev.from \in Int /\ ev.to \in Int
      <4>1. calendar \in Calendars /\ fetched \subseteq calendar /\ Answer \subseteq calendar
        BY <1>2 DEF CalendarTypes, Answer
      <4> QED  BY <1>1, <1>4, <4>1, CalendarAssumption
    <3>4. a.from <= ev.from /\ ev.to <= a.to
      BY <2>1, <3>1, <3>2, <3>3 DEF Spans, Acts
    <3> QED  BY <2>1, <3>1, <3>4 DEF Spans
  <2>2. CASE ev \in Answer
    <3>1. PICK b : b = ActOf(ev, st.seen)  OBVIOUS
    <3>2. b \in st.held  BY <1>1, <1>4, <2>2, <3>1 DEF ParsedWindow
    <3>3. b.name = NameOf(ev, st.seen) /\ b.from = ev.from /\ b.to = ev.to  BY <3>1 DEF ActOf
    <3>4. ev.from <= ev.from /\ ev.to <= ev.to
      <4>1. calendar \in Calendars /\ Answer \subseteq calendar
        BY <1>2 DEF CalendarTypes, Answer
      <4>2. ev.from \in Int /\ ev.to \in Int  BY <1>4, <2>2, <4>1, CalendarAssumption
      <4> QED  BY <4>2
    <3>5. Spans(b, ev, st.seen)  BY <3>3, <3>4 DEF Spans
    <3> QED  BY <1>1, <2>1, <3>2, <3>5
  <2>3. CASE ev \in fetched
    <3>1. PICK b \in held \cup ToSet(activated) : Spans(b, ev, seenPosts)
      BY <1>1, <1>2, <1>4, <2>3 DEF EventsCovered
    <3>2. NameOf(ev, st.seen) = NameOf(ev, seenPosts)  BY <1>1, <1>4, <2>3 DEF ParsedWindow
    <3>3. Spans(b, ev, st.seen)  BY <3>1, <3>2 DEF Spans
    <3>4. CASE b \in held
      <4>1. b \in st.held  BY <1>1, <3>4 DEF ParsedWindow
      <4> QED  BY <1>1, <2>1, <3>3, <4>1
    <3>5. CASE b \in ToSet(activated)
      BY <1>1, <3>3, <3>5
    <3> QED  BY <3>1, <3>4, <3>5
  <2> QED  BY <1>1, <1>4, <2>2, <2>3
<1> QED
  BY <1>3, <1>4 DEF EventsCovered, Timed, NoTime, Spans, NameOf, SameSlot, ToSet

-----------------------------------------------------------------------------
(* The other steps.                                                        *)

LEMMA CalendarBegins ==
  ASSUME CalendarInit
  PROVE  CalendarIInv
<1>1. /\ calendar \in Calendars /\ winStart = 0 /\ seenPosts = {} /\ held = {} /\ activated = <<>>
      /\ fetched = {} /\ intact = TRUE
  BY DEF CalendarInit
<1>2. ToSet(activated) = {}  BY <1>1 DEF ToSet
<1>3. activated \in Seq(Acts) /\ DOMAIN activated = {}  BY <1>1
<1>4. CalendarTypes  BY <1>1, <1>3, FS_EmptySet DEF CalendarTypes
<1>5. SeenInv  BY <1>1 DEF SeenInv, Firsts
<1>6. BackedInv  BY <1>1, <1>2 DEF BackedInv
<1>7. Apart(activated)  BY <1>3 DEF Apart
<1>8. AheadInv  BY <1>1, <1>2 DEF AheadInv
<1>9. EventsCovered  BY <1>1 DEF EventsCovered
<1> QED  BY <1>4, <1>5, <1>6, <1>7, <1>8, <1>9 DEF CalendarIInv

\* A step that takes no event and pushes no activation keeps what it leaves alone.
LEMMA IdleKeeps ==
  ASSUME CalendarIInv, UNCHANGED <<calendar, seenPosts, activated, fetched>>,
         configured \subseteq configured', held' = held \/ held' = {}, winStart' \in Nat, intact' \in BOOLEAN,
         AheadInv', EventsCovered'
  PROVE  CalendarIInv'
<1>1. CalendarTypes /\ SeenInv /\ BackedInv /\ Apart(activated)  BY DEF CalendarIInv
<1>2. CalendarTypes'
  <2>1. held' \in SUBSET Acts /\ IsFiniteSet(held')  BY <1>1, FS_EmptySet DEF CalendarTypes
  <2>2. calendar' \in Calendars /\ activated' \in Seq(Acts) /\ fetched' \in SUBSET calendar'
    BY <1>1 DEF CalendarTypes
  <2> QED  BY <2>1, <2>2 DEF CalendarTypes, Acts, ActNames
<1>3. SeenInv'
  <2>1. Firsts(seenPosts', fetched')  BY <1>1 DEF SeenInv
  <2> QED  BY <2>1 DEF SeenInv, Firsts, Timed, SameSlot
<1>4. BackedInv'
  <2>1. \A a \in held' \cup ToSet(activated') : Backed(a, configured, fetched')
    BY <1>1 DEF BackedInv
  <2>2. \A a \in held' \cup ToSet(activated') : Backed(a, configured', fetched')
    BY <2>1 DEF Backed
  <2> QED  BY <2>2 DEF BackedInv, Backed, Timed, NoTime, ToSet
<1>5. Apart(activated)'  BY <1>1 DEF Apart
<1> QED  BY <1>2, <1>3, <1>4, <1>5 DEF CalendarIInv

\* A window that fails has pushed configurations and withdrawn none.
LEMMA FailureConfigures ==
  ASSUME CalendarIInv, WindowFails
  PROVE  configured \subseteq configured'
<1>1. PICK start : start = [seen |-> seenPosts, held |-> held, names |-> configured]  OBVIOUS
<1>2. start.seen = seenPosts /\ start.held = held /\ start.names = configured  BY <1>1
<1>3. PICK before \in SUBSET Answer : \E order \in SetToSeqs(before) :
        configured' = FoldLeft(PushEvent, start, order).names
  BY <1>1 DEF WindowFails
<1>4. PICK order \in SetToSeqs(before) : configured' = FoldLeft(PushEvent, start, order).names
  BY <1>3
<1>5. IsFiniteSet(before)
  <2>1. calendar \in Calendars /\ before \subseteq calendar
    BY <1>3 DEF CalendarIInv, CalendarTypes, Answer
  <2> QED  BY <2>1, CalendarAssumption, FS_Subset
<1>6. Firsts(start.seen, fetched) /\ IsFiniteSet(start.held)
  BY <1>2 DEF CalendarIInv, CalendarTypes, SeenInv
<1>7. Parsed(FoldLeft(PushEvent, start, order), start, fetched, before)
  BY <1>4, <1>5, <1>6, ParsedAll
<1> QED  BY <1>2, <1>4, <1>7 DEF Parsed

LEMMA CalendarStep ==
  ASSUME CalendarIInv, [CalendarNext]_calendarVars
  PROVE  CalendarIInv'
<1>0. CalendarTypes /\ AheadInv /\ EventsCovered /\ winStart \in Nat /\ RangeEnd \in Nat
  BY CalendarAssumption DEF CalendarIInv, CalendarTypes
<1>1. CASE Window
  <2>1. PICK st, out, carry, flushAll : WindowCut(st, out, carry, flushAll)
    BY <1>1, WindowParts
  <2>2. CalendarTypes' /\ SeenInv' /\ BackedInv' /\ Apart(activated)'  BY <2>1, WindowKeepsParts
  <2>3. AheadInv'  BY <2>1, WindowKeepsAhead
  <2>4. EventsCovered'  BY <2>1, WindowKeepsCover
  <2> QED  BY <2>2, <2>3, <2>4 DEF CalendarIInv
<1>2. CASE WindowFails
  <2>1. /\ UNCHANGED <<calendar, seenPosts, activated, fetched>>
        /\ winStart' = RangeEnd /\ held' = {} /\ intact' = FALSE
    BY <1>2 DEF WindowFails
  <2>2. AheadInv'  BY <1>0, <2>1 DEF AheadInv
  <2>3. EventsCovered'  BY <2>1 DEF EventsCovered
  <2>4. configured \subseteq configured'  BY <1>2, FailureConfigures
  <2> QED  BY <1>0, <2>1, <2>2, <2>3, <2>4, IdleKeeps
<1>3. CASE EndScan
  <2>1. /\ UNCHANGED <<calendar, seenPosts, configured, activated, fetched>>
        /\ UNCHANGED <<winStart, held, intact>>
        /\ reader = "scanning" /\ winStart >= RangeEnd /\ reader' \in {"completed", "sleeping"}
    BY <1>3 DEF EndScan
  <2>2. AheadInv'  BY <2>1 DEF AheadInv
  <2>3. EventsCovered'
    <3>1. winStart' >= RangeEnd => held' = {}  BY <1>0, <2>1 DEF EventsCovered
    <3>2. intact => \A ev \in fetched : Timed(ev) =>
                      \E a \in held \cup ToSet(activated) : Spans(a, ev, seenPosts)
      BY <1>0, <2>1 DEF EventsCovered
    <3> QED  BY <2>1, <3>1, <3>2 DEF EventsCovered, Timed, NoTime, Spans, NameOf, SameSlot, ToSet
  <2> QED  BY <1>0, <2>1, <2>2, <2>3, IdleKeeps DEF CalendarTypes
<1>4. CASE Rescan
  <2>1. CalendarTypes'
    <3>1. calendar' \in Calendars  BY <1>0, <1>4 DEF Rescan, CalendarTypes
    <3>2. winStart' = 0 /\ held' = {} /\ activated' = <<>> /\ fetched' = {} /\ intact' = TRUE
      BY <1>4 DEF Rescan, FreshScan
    <3>3. activated' \in Seq(Acts)  BY <3>2
    <3> QED  BY <3>1, <3>2, <3>3, FS_EmptySet DEF CalendarTypes, Acts, ActNames
  <2>2. /\ winStart' = 0 /\ held' = {} /\ activated' = <<>> /\ fetched' = {} /\ intact' = TRUE
        /\ seenPosts' = {}
    BY <1>4 DEF Rescan, FreshScan
  <2>3. ToSet(activated') = {} /\ DOMAIN activated' = {}  BY <2>2 DEF ToSet
  <2>4. SeenInv'  BY <2>2 DEF SeenInv, Firsts
  <2>5. BackedInv'  BY <2>2, <2>3 DEF BackedInv, ToSet
  <2>6. Apart(activated)'  BY <2>3 DEF Apart
  <2>7. AheadInv'  BY <2>2, <2>3 DEF AheadInv, ToSet
  <2>8. EventsCovered'  BY <2>2 DEF EventsCovered
  <2> QED  BY <2>1, <2>4, <2>5, <2>6, <2>7, <2>8 DEF CalendarIInv
<1>5. CASE Stop
  <2>1. /\ UNCHANGED <<calendar, seenPosts, configured, activated, fetched>>
        /\ UNCHANGED <<winStart, intact>> /\ held' = {} /\ reader' = "stopped"
        /\ reader \in {"scanning", "sleeping"}
    BY <1>5 DEF Stop
  <2>2. AheadInv'  BY <2>1 DEF AheadInv
  <2>3. EventsCovered'
    <3>1. intact /\ winStart >= RangeEnd =>
            \A ev \in fetched : Timed(ev) =>
              \E a \in ToSet(activated) : Spans(a, ev, seenPosts)
      <4>1. winStart >= RangeEnd => held = {}  BY <1>0 DEF EventsCovered
      <4> QED  BY <1>0, <4>1 DEF EventsCovered
    <3> QED  BY <2>1, <3>1 DEF EventsCovered, Timed, NoTime, Spans, NameOf, SameSlot, ToSet
  <2> QED  BY <1>0, <2>1, <2>2, <2>3, IdleKeeps DEF CalendarTypes
<1>6. CASE UNCHANGED calendarVars
  BY <1>6 DEF calendarVars, CalendarIInv, CalendarTypes, SeenInv, BackedInv, Apart, AheadInv, EventsCovered
<1> QED
  BY <1>1, <1>2, <1>3, <1>4, <1>5, <1>6 DEF CalendarNext

LEMMA CalendarInvExact ==
  ASSUME CalendarIInv
  PROVE  ActivationsExact
<1>1. BackedInv /\ Apart(activated) /\ EventsCovered  BY DEF CalendarIInv
<1>2. \A act \in ToSet(activated) :
        /\ act.name \in configured
        /\ \A x \in act.from .. act.to - 1 : Busy(act.name[1], x)
  BY <1>1 DEF BackedInv, Backed, Busy
<1>3. ASSUME intact, winStart >= RangeEnd, NEW ev \in fetched, Timed(ev)
      PROVE  \E act \in ToSet(activated) : Covers(act, ev)
  <2>1. held = {}  BY <1>1, <1>3 DEF EventsCovered
  <2>2. PICK a \in ToSet(activated) : Spans(a, ev, seenPosts)  BY <1>1, <1>3, <2>1 DEF EventsCovered
  <2>3. Covers(a, ev)  BY <2>2 DEF Spans, Covers, NameOf
  <2> QED  BY <2>3
<1> QED
  BY <1>1, <1>2, <1>3 DEF ActivationsExact, Apart

\* Within one scan of the SLAC calendar no two activations of a name touch,
\* each spans only time that was posted and goes out after its configuration,
\* and a scan without a bad window leaves no event without its activation
\* (pushEvent, mergeAndPushActivations and its carry-over).
THEOREM ActivationsAreExact == CalendarSpec => []ActivationsExact
<1>1. CalendarInit => CalendarIInv  BY CalendarBegins
<1>2. CalendarIInv /\ [CalendarNext]_calendarVars => CalendarIInv'  BY CalendarStep
<1>3. CalendarIInv => ActivationsExact  BY CalendarInvExact
<1> QED  BY <1>1, <1>2, <1>3, PTL DEF CalendarSpec
=============================================================================
