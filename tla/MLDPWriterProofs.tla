-------------------------- MODULE MLDPWriterProofs --------------------------
(***************************************************************************)
(* The ingestion writer keeps its types, its pool's accounting of          *)
(* connections and its own of frames are exact, and stop() leaves nothing  *)
(* behind, for any number of workers, connections and items and any        *)
(* limits.                                                                 *)
(***************************************************************************)
EXTENDS MLDPWriter, FiniteSetTheorems, WellFoundedInduction, TLAPS

-----------------------------------------------------------------------------
(* The inductive invariant. *)

\* A worker has a connection exactly while its stream is open or being opened.
HandleInv ==
  \A w \in Workers :
    /\ pc[w] = "open" => handle[w] # NoConnection /\ ~writer[w]
    /\ pc[w] = "acquire" => ~writer[w]
    /\ pc[w] \in {"age", "frame"} => writer[w]
    /\ writer[w] => handle[w] # NoConnection
    /\ handle[w] # NoConnection => writer[w] \/ pc[w] = "open"

\* Whatever is owned is marked in use.
MarkedInv ==
  /\ \A w \in Workers :
       handle[w] # NoConnection => handle[w] \in DOMAIN inUse /\ inUse[handle[w]]
  /\ \A i \in DOMAIN closing :
       closing[i].connection \in DOMAIN inUse /\ inUse[closing[i].connection]

\* Nothing is owned twice.
ExclusiveInv ==
  /\ \A v, w \in Workers : handle[v] = handle[w] /\ handle[v] # NoConnection => v = w
  /\ \A i, j \in DOMAIN closing : closing[i].connection = closing[j].connection => i = j
  /\ \A w \in Workers : \A i \in DOMAIN closing : handle[w] # closing[i].connection

\* Whatever is marked in use is owned.
OwnedInv ==
  \A c \in DOMAIN inUse :
    inUse[c] => \/ \E w \in Workers : handle[w] = c
                \/ \E i \in DOMAIN closing : closing[i].connection = c

\* Before start() there is no pool and no worker has begun.
NewInv ==
  phase = "new" => /\ inUse = <<>>
                   /\ \A w \in Workers : pc[w] = "wait"

Inv == TypeOK /\ HandleInv /\ MarkedInv /\ ExclusiveInv /\ OwnedInv /\ NewInv

-----------------------------------------------------------------------------
(* Facts about sequences the steps need. *)

\* The item toItems() makes of a batch is a sequence of frames.
LEMMA ItemType ==
  ASSUME accepted \in 0 .. MaxItems, accepted < MaxItems, NEW batch \in Batches
  PROVE  toItems(batch) \in Seq(Frame)
<1>1. batch \in Seq(Sizes)
  BY WriterAssumption
<1>2. DOMAIN batch = 1 .. Len(batch) /\ Len(batch) \in Nat
  BY <1>1
<1>3. accepted + 1 \in Items
  BY WriterAssumption DEF Items
<1>4. \A i \in 1 .. Len(batch) :
        [item |-> accepted + 1, index |-> i, size |-> batch[i]] \in Frame
  BY <1>1, <1>3 DEF Frame
<1>5. toItems(batch) = [i \in 1 .. Len(batch) |->
                          [item |-> accepted + 1, index |-> i, size |-> batch[i]]]
  BY <1>2 DEF toItems
<1> QED
  BY <1>2, <1>4, <1>5

-----------------------------------------------------------------------------

\* The initial state satisfies the invariant.
LEMMA InvInit == Init => Inv
<1> SUFFICES ASSUME Init PROVE Inv
  OBVIOUS
<1>1. <<>> \in Seq(Seq(Frame)) /\ <<>> \in Seq(Frame) /\ <<>> \in Seq(BOOLEAN)
      /\ <<>> \in Seq(ClosingStream)
  OBVIOUS
<1>2. TypeOK
  <2>1. /\ accepted \in 0 .. MaxItems
        /\ payloadBytes \in [Workers -> Nat] /\ framesWritten \in [Workers -> Nat]
        /\ handle \in [Workers -> Connections \cup {NoConnection}]
        /\ Len(inUse) <= MaxConnections
    BY WriterAssumption DEF Init
  <2>2. /\ queue \in [Workers -> Seq(Seq(Frame))]
        /\ hand \in [Workers -> Seq(Frame)] /\ sent \in [Workers -> Seq(Frame)]
        /\ closing \in Seq(ClosingStream)
        /\ inUse \in Seq(BOOLEAN)
        /\ ingested \subseteq Frame /\ failed \subseteq Frame /\ offered \subseteq Frame
    BY <1>1 DEF Init
  <2>3. /\ phase \in {"new", "running", "failed", "stopping", "stopped"}
        /\ pc \in [Workers -> {"wait", "acquire", "open", "age", "frame", "exited"}]
        /\ resume \in [Workers -> {"age", "frame"}]
    BY DEF Init
  <2>4. forceQuit \in BOOLEAN /\ writer \in [Workers -> BOOLEAN] /\ aged \in [Workers -> BOOLEAN]
    BY Zenon DEF Init
  <2> QED
    BY <2>1, <2>2, <2>3, <2>4
    DEF TypeOK, LifeTypes, QueueTypes, WorkTypes, StreamTypes, PoolTypes, ResultTypes
<1>3. HandleInv /\ MarkedInv /\ ExclusiveInv /\ OwnedInv /\ NewInv
  BY DEF Init, HandleInv, MarkedInv, ExclusiveInv, OwnedInv, NewInv
<1> QED
  BY <1>2, <1>3 DEF Inv
-----------------------------------------------------------------------------
(* Steps that close a stream. *)

\* closeStream() keeps the types of streams and pool.
LEMMA CloseTypes ==
  ASSUME TypeOK, HandleInv, NEW w \in Workers, writer[w], NEW frames \in Seq(Frame),
         CloseStream(w, frames), inUse' = inUse
  PROVE  StreamTypes' /\ PoolTypes'
<1> USE DEF TypeOK, StreamTypes, PoolTypes
<1>1. handle[w] \in Connections
  BY DEF HandleInv
<1>2. [connection |-> handle[w], frames |-> frames] \in ClosingStream
  BY <1>1 DEF ClosingStream
<1>3. closing' \in Seq(ClosingStream)
  BY <1>2 DEF CloseStream
<1>4. <<>> \in Seq(Frame)
  OBVIOUS
<1>5. /\ handle' \in [Workers -> Connections \cup {NoConnection}]
      /\ payloadBytes' \in [Workers -> Nat] /\ framesWritten' \in [Workers -> Nat]
      /\ sent' \in [Workers -> Seq(Frame)]
  BY <1>4 DEF CloseStream
<1>6. writer' \in [Workers -> BOOLEAN] /\ aged' \in [Workers -> BOOLEAN]
  BY Zenon DEF CloseStream
<1>7. inUse' \in Seq(BOOLEAN) /\ Len(inUse') <= MaxConnections
  OBVIOUS
<1> QED
  BY <1>3, <1>5, <1>6, <1>7

\* closeStream() moves the connection from the worker to the closing task.
LEMMA CloseOwned ==
  ASSUME Inv, NEW w \in Workers, writer[w], NEW frames \in Seq(Frame),
         CloseStream(w, frames), inUse' = inUse,
         pc'[w] \notin {"open", "age", "frame"},
         \A v \in Workers \ {w} : pc'[v] = pc[v]
  PROVE  HandleInv' /\ MarkedInv' /\ ExclusiveInv' /\ OwnedInv'
<1>0. /\ HandleInv /\ MarkedInv /\ ExclusiveInv /\ OwnedInv
      /\ closing \in Seq(ClosingStream)
      /\ handle \in [Workers -> Connections \cup {NoConnection}]
      /\ writer \in [Workers -> BOOLEAN]
  BY DEF Inv, TypeOK, StreamTypes, PoolTypes
<1> DEFINE n == Len(closing)
<1>1. handle[w] \in Connections /\ handle[w] # NoConnection
  BY <1>0 DEF HandleInv, Connections, NoConnection
<1>2. [connection |-> handle[w], frames |-> frames] \in ClosingStream
  BY <1>1 DEF ClosingStream
<1>3. /\ closing' = Append(closing, [connection |-> handle[w], frames |-> frames])
      /\ n \in Nat /\ DOMAIN closing = 1 .. n /\ DOMAIN closing' = 1 .. n + 1
  BY <1>0, <1>2 DEF CloseStream
<1>4. \A i \in 1 .. n : closing'[i] = closing[i]
  BY <1>0, <1>2, <1>3
<1>5. closing'[n + 1].connection = handle[w]
  BY <1>0, <1>2, <1>3
<1>6. /\ handle'[w] = NoConnection /\ ~writer'[w]
      /\ \A v \in Workers \ {w} : handle'[v] = handle[v] /\ writer'[v] = writer[v]
  BY <1>0 DEF CloseStream
<1>7. HandleInv'
  BY <1>0, <1>6 DEF HandleInv
<1>8. MarkedInv'
  <2>1. \A v \in Workers :
          handle'[v] # NoConnection => handle'[v] \in DOMAIN inUse' /\ inUse'[handle'[v]]
    BY <1>0, <1>6 DEF MarkedInv
  <2>2. \A i \in 1 .. n : closing'[i].connection \in DOMAIN inUse' /\ inUse'[closing'[i].connection]
    BY <1>0, <1>3, <1>4 DEF MarkedInv
  <2>3. handle[w] \in DOMAIN inUse' /\ inUse'[handle[w]]
    BY <1>0, <1>1 DEF MarkedInv
  <2>4. \A i \in 1 .. n + 1 : i \in 1 .. n \/ i = n + 1
    BY <1>3
  <2>5. \A i \in 1 .. n + 1 :
          closing'[i].connection \in DOMAIN inUse' /\ inUse'[closing'[i].connection]
    BY <1>5, <2>2, <2>3, <2>4
  <2> QED
    BY <1>3, <2>1, <2>5 DEF MarkedInv
<1>9. ExclusiveInv'
  <2>1. \A v \in Workers : \A u \in Workers :
          handle'[v] = handle'[u] /\ handle'[v] # NoConnection => v = u
    BY <1>0, <1>6 DEF ExclusiveInv
  <2>2. \A i, j \in 1 .. n + 1 : closing'[i].connection = closing'[j].connection => i = j
    <3>1. \A i \in 1 .. n + 1 : i \in 1 .. n \/ i = n + 1
      BY <1>3
    <3>2. \A i, j \in 1 .. n : closing'[i].connection = closing'[j].connection => i = j
      BY <1>0, <1>3, <1>4 DEF ExclusiveInv
    <3>3. \A i \in 1 .. n : closing'[i].connection # handle[w]
      BY <1>0, <1>3, <1>4 DEF ExclusiveInv
    <3> QED
      BY <1>5, <3>1, <3>2, <3>3
  <2>3. \A v \in Workers : \A i \in 1 .. n + 1 : handle'[v] # closing'[i].connection
    <3>0. \A i \in 1 .. n : closing[i] \in ClosingStream
      BY <1>0, <1>3
    <3>1. \A i \in 1 .. n : closing[i].connection \in Connections
      BY <3>0 DEF ClosingStream
    <3>2. NoConnection \notin Connections
      BY DEF NoConnection, Connections
    <3>3. \A v \in Workers : \A i \in 1 .. n : handle'[v] # closing'[i].connection
      <4>1. \A i \in 1 .. n : handle'[w] # closing'[i].connection
        BY <1>4, <1>6, <3>1, <3>2
      <4>2. \A v \in Workers \ {w} : \A i \in 1 .. n : handle'[v] # closing'[i].connection
        BY <1>0, <1>3, <1>4, <1>6, SMTT(30) DEF ExclusiveInv
      <4> QED
        BY <4>1, <4>2
    <3>4. \A v \in Workers : handle'[v] # handle[w]
      BY <1>0, <1>1, <1>6 DEF ExclusiveInv
    <3>5. \A i \in 1 .. n + 1 : i \in 1 .. n \/ i = n + 1
      BY <1>3
    <3> QED
      BY <1>5, <3>3, <3>4, <3>5
  <2> QED
    BY <1>3, <2>1, <2>2, <2>3 DEF ExclusiveInv
<1>10. OwnedInv'
  <2> SUFFICES ASSUME NEW c \in DOMAIN inUse, inUse[c]
               PROVE  \/ \E v \in Workers : handle'[v] = c
                      \/ \E i \in DOMAIN closing' : closing'[i].connection = c
    BY DEF OwnedInv
  <2>1. CASE \E v \in Workers : handle[v] = c
    <3>1. PICK v \in Workers : handle[v] = c
      BY <2>1
    <3>2. CASE v = w
      BY <1>3, <1>5, <3>1, <3>2
    <3>3. CASE v # w
      BY <1>6, <3>1, <3>3
    <3> QED
      BY <3>2, <3>3
  <2>2. CASE \E i \in DOMAIN closing : closing[i].connection = c
    BY <1>3, <1>4, <2>2
  <2> QED
    BY <1>0, <2>1, <2>2 DEF OwnedInv
<1> QED
  BY <1>7, <1>8, <1>9, <1>10

-----------------------------------------------------------------------------
(* Steps that leave a part of the state alone. *)

\* Types of what a step does not touch.
LEMMA FrameTypes ==
  ASSUME TypeOK
  PROVE  /\ UNCHANGED lifeVars => LifeTypes'
         /\ UNCHANGED queueVars => QueueTypes'
         /\ UNCHANGED workVars => WorkTypes'
         /\ UNCHANGED streamVars => StreamTypes'
         /\ UNCHANGED <<closing, inUse>> => PoolTypes'
         /\ UNCHANGED resultVars => ResultTypes'
<1>1. UNCHANGED lifeVars => LifeTypes'
  BY DEF TypeOK, LifeTypes, lifeVars
<1>2. UNCHANGED queueVars => QueueTypes'
  BY DEF TypeOK, QueueTypes, queueVars
<1>3. UNCHANGED workVars => WorkTypes'
  BY DEF TypeOK, WorkTypes, workVars
<1>4. UNCHANGED streamVars => StreamTypes'
  BY DEF TypeOK, StreamTypes, streamVars
<1>5. UNCHANGED <<closing, inUse>> => PoolTypes'
  BY DEF TypeOK, PoolTypes
<1>6. UNCHANGED resultVars => ResultTypes'
  BY DEF TypeOK, ResultTypes, resultVars
<1> QED
  BY <1>1, <1>2, <1>3, <1>4, <1>5, <1>6

\* Ownership when neither handles nor closing tasks nor marks change.
LEMMA FrameOwned ==
  ASSUME Inv, UNCHANGED <<handle, closing, inUse>>
  PROVE  MarkedInv' /\ ExclusiveInv' /\ OwnedInv'
<1>1. MarkedInv /\ ExclusiveInv /\ OwnedInv
  BY DEF Inv
<1> QED
  BY <1>1 DEF MarkedInv, ExclusiveInv, OwnedInv

\* Handles and streams of the other workers stay what they were.
LEMMA FrameHandles ==
  ASSUME Inv, UNCHANGED <<handle, writer>>, NEW w \in Workers,
         \A v \in Workers \ {w} : pc'[v] = pc[v],
         pc'[w] = "open" => pc[w] = "open", pc'[w] = "acquire" => ~writer[w],
         pc'[w] \in {"age", "frame"} => writer[w], pc[w] # "open"
  PROVE  HandleInv'
<1>1. HandleInv
  BY DEF Inv
<1> QED
  BY <1>1 DEF HandleInv

-----------------------------------------------------------------------------
(* Steps of the pool. *)

\* acquire() marks a connection nobody owns and gives it to the worker.
LEMMA AcquireStep ==
  ASSUME Inv, NEW w \in Workers, Acquire(w)
  PROVE  Inv'
<1>0. /\ HandleInv /\ MarkedInv /\ ExclusiveInv /\ OwnedInv /\ NewInv
      /\ closing \in Seq(ClosingStream) /\ inUse \in Seq(BOOLEAN) /\ Len(inUse) <= MaxConnections
      /\ handle \in [Workers -> Connections \cup {NoConnection}]
      /\ writer \in [Workers -> BOOLEAN]
      /\ pc \in [Workers -> {"wait", "acquire", "open", "age", "frame", "exited"}]
  BY DEF Inv, TypeOK, StreamTypes, PoolTypes, WorkTypes
<1>1. /\ pc[w] = "acquire" /\ pc' = [pc EXCEPT ![w] = "open"]
      /\ UNCHANGED <<lifeVars, queueVars, resume, hand, writer, aged, payloadBytes, framesWritten,
                     sent, closing, resultVars>>
  BY DEF Acquire
<1>2. handle[w] = NoConnection /\ ~writer[w]
  BY <1>0, <1>1 DEF HandleInv
<1>3. PICK c \in Connections :
        /\ c \in DOMAIN inUse' /\ inUse'[c]
        /\ c \in DOMAIN inUse => ~inUse[c]
        /\ handle' = [handle EXCEPT ![w] = c]
        /\ DOMAIN inUse \subseteq DOMAIN inUse'
        /\ \A d \in DOMAIN inUse' : d # c => d \in DOMAIN inUse /\ inUse'[d] = inUse[d]
        /\ inUse' \in Seq(BOOLEAN) /\ Len(inUse') <= MaxConnections
  <2>1. DOMAIN inUse = 1 .. Len(inUse) /\ Len(inUse) \in Nat
    BY <1>0
  <2>2. CASE \E c \in DOMAIN inUse :
               /\ Idle(c)
               /\ inUse' = [inUse EXCEPT ![c] = TRUE]
               /\ handle' = [handle EXCEPT ![w] = c]
    <3>1. PICK c \in DOMAIN inUse :
               /\ Idle(c)
               /\ inUse' = [inUse EXCEPT ![c] = TRUE]
               /\ handle' = [handle EXCEPT ![w] = c]
      BY <2>2
    <3>2. inUse' \in Seq(BOOLEAN) /\ Len(inUse') = Len(inUse) /\ DOMAIN inUse' = DOMAIN inUse
      BY <1>0, <3>1
    <3>3. c \in Connections
      BY <1>0, <2>1, WriterAssumption DEF Connections
    <3> QED
      BY <1>0, <3>1, <3>2, <3>3 DEF Idle
  <2>3. CASE /\ Len(inUse) < MaxConnections
             /\ inUse' = Append(inUse, TRUE)
             /\ handle' = [handle EXCEPT ![w] = Len(inUse) + 1]
    <3>1. /\ inUse' \in Seq(BOOLEAN) /\ Len(inUse') = Len(inUse) + 1
          /\ DOMAIN inUse' = 1 .. Len(inUse) + 1
          /\ \A d \in 1 .. Len(inUse) : inUse'[d] = inUse[d]
          /\ inUse'[Len(inUse) + 1] = TRUE
      BY <1>0, <2>3
    <3>2. Len(inUse) + 1 \in Connections
      BY <2>1, <2>3, WriterAssumption DEF Connections
    <3>3. \A d \in 1 .. Len(inUse) + 1 : d # Len(inUse) + 1 => d \in 1 .. Len(inUse)
      BY <2>1
    <3>4. Len(inUse) + 1 \notin 1 .. Len(inUse) /\ 1 .. Len(inUse) \subseteq 1 .. Len(inUse) + 1
      BY <2>1
    <3>5. Len(inUse') <= MaxConnections
      BY <2>1, <2>3, <3>1, WriterAssumption
    <3>6. PICK e : e = Len(inUse) + 1
      OBVIOUS
    <3>7. /\ e \in Connections /\ e \in DOMAIN inUse' /\ inUse'[e] = TRUE /\ e \notin DOMAIN inUse
          /\ handle' = [handle EXCEPT ![w] = e]
          /\ DOMAIN inUse \subseteq DOMAIN inUse'
      BY <2>1, <2>3, <3>1, <3>2, <3>4, <3>6
    <3>8. \A d \in DOMAIN inUse' : d # e => d \in DOMAIN inUse /\ inUse'[d] = inUse[d]
      BY <2>1, <3>1, <3>3, <3>6
    <3> QED
      BY <3>1, <3>5, <3>7, <3>8
  <2> QED
    BY <2>2, <2>3 DEF Acquire
<1>4. c # NoConnection
  BY DEF Connections, NoConnection
<1>5. /\ \A v \in Workers : handle[v] # c
      /\ \A i \in DOMAIN closing : closing[i].connection # c
  BY <1>0, <1>3, <1>4 DEF MarkedInv
<1>6. handle'[w] = c /\ \A v \in Workers \ {w} : handle'[v] = handle[v]
  BY <1>0, <1>3
<1>7. pc'[w] = "open" /\ \A v \in Workers \ {w} : pc'[v] = pc[v]
  BY <1>0, <1>1
<1>8. HandleInv'
  BY <1>0, <1>1, <1>2, <1>4, <1>6, <1>7 DEF HandleInv
<1>9. MarkedInv'
  <2>1. \A v \in Workers :
          handle'[v] # NoConnection => handle'[v] \in DOMAIN inUse' /\ inUse'[handle'[v]]
    BY <1>0, <1>3, <1>5, <1>6 DEF MarkedInv
  <2>2. \A i \in DOMAIN closing :
          closing[i].connection \in DOMAIN inUse' /\ inUse'[closing[i].connection]
    BY <1>0, <1>3, <1>5 DEF MarkedInv
  <2> QED
    BY <1>1, <2>1, <2>2 DEF MarkedInv
<1>10. ExclusiveInv'
  BY <1>0, <1>1, <1>5, <1>6 DEF ExclusiveInv
<1>11. OwnedInv'
  <2> SUFFICES ASSUME NEW d \in DOMAIN inUse', inUse'[d]
               PROVE  \/ \E v \in Workers : handle'[v] = d
                      \/ \E i \in DOMAIN closing : closing[i].connection = d
    BY <1>1 DEF OwnedInv
  <2>1. CASE d = c
    BY <1>6, <2>1
  <2>2. CASE d # c
    <3>1. d \in DOMAIN inUse /\ inUse[d]
      BY <1>3, <2>2
    <3>2. \/ \E v \in Workers : handle[v] = d
          \/ \E i \in DOMAIN closing : closing[i].connection = d
      BY <1>0, <3>1 DEF OwnedInv
    <3>3. d \in Nat
      BY <1>0, <3>1
    <3>4. d # NoConnection
      BY <1>0, <3>1 DEF NoConnection
    <3> QED
      BY <1>2, <1>6, <3>2, <3>4
  <2> QED
    BY <2>1, <2>2
<1>12. NewInv'
  BY <1>0, <1>1 DEF NewInv, lifeVars
<1>13. TypeOK'
  <2>1. LifeTypes' /\ QueueTypes' /\ ResultTypes'
    BY <1>1, FrameTypes DEF Inv
  <2>2. WorkTypes'
    BY <1>0, <1>1 DEF Inv, TypeOK, WorkTypes
  <2>3. StreamTypes'
    BY <1>0, <1>1, <1>3 DEF Inv, TypeOK, StreamTypes
  <2>4. PoolTypes'
    BY <1>0, <1>1, <1>3 DEF PoolTypes
  <2> QED
    BY <2>1, <2>2, <2>3, <2>4 DEF TypeOK
<1> QED
  BY <1>8, <1>9, <1>10, <1>11, <1>12, <1>13 DEF Inv

\* release() keeps the marks of the other connections.
LEMMA ReleaseMarks ==
  ASSUME inUse \in Seq(BOOLEAN), Len(inUse) <= MaxConnections, NEW c \in DOMAIN inUse, Release(c)
  PROVE  /\ inUse' \in Seq(BOOLEAN) /\ Len(inUse') <= MaxConnections
         /\ DOMAIN inUse' = DOMAIN inUse /\ inUse'[c] = FALSE
         /\ \A d \in DOMAIN inUse : d # c => inUse'[d] = inUse[d]
BY DEF Release

\* The items a worker gives up are counted as failed.
LEMMA AbandonTypes ==
  ASSUME TypeOK, NEW w \in Workers, Abandon(w), resume' = resume, ingested' = ingested
  PROVE  WorkTypes' /\ ResultTypes'
<1>1. <<>> \in Seq(Frame)
  OBVIOUS
<1>2. WorkTypes'
  BY <1>1 DEF TypeOK, WorkTypes, Abandon
<1>3. FramesOf(hand[w]) \subseteq Frame
  <2>1. hand[w] \in Seq(Frame)
    BY DEF TypeOK, WorkTypes
  <2> QED
    BY <2>1 DEF FramesOf
<1>4. ResultTypes'
  BY <1>3 DEF TypeOK, ResultTypes, Abandon
<1> QED
  BY <1>2, <1>4

\* A stream that does not open gives its connection back.
LEMMA OpenFailsStep ==
  ASSUME Inv, NEW w \in Workers, OpenFails(w)
  PROVE  Inv'
<1>0. /\ HandleInv /\ MarkedInv /\ ExclusiveInv /\ OwnedInv /\ NewInv /\ TypeOK
      /\ inUse \in Seq(BOOLEAN) /\ Len(inUse) <= MaxConnections
      /\ closing \in Seq(ClosingStream)
      /\ handle \in [Workers -> Connections \cup {NoConnection}]
      /\ writer \in [Workers -> BOOLEAN]
      /\ pc \in [Workers -> {"wait", "acquire", "open", "age", "frame", "exited"}]
  BY DEF Inv, TypeOK, StreamTypes, PoolTypes, WorkTypes
<1>1. /\ pc[w] = "open" /\ pc' = [pc EXCEPT ![w] = "wait"]
      /\ handle' = [handle EXCEPT ![w] = NoConnection]
      /\ Release(handle[w]) /\ Abandon(w)
      /\ UNCHANGED <<lifeVars, queueVars, resume, writer, aged, payloadBytes, framesWritten, sent,
                     closing, ingested>>
  BY DEF OpenFails, Abandon
<1>2. handle[w] # NoConnection /\ ~writer[w] /\ handle[w] \in DOMAIN inUse /\ inUse[handle[w]]
  BY <1>0, <1>1 DEF HandleInv, MarkedInv
<1>3. PICK c \in DOMAIN inUse : c = handle[w]
  BY <1>2
<1>4. /\ inUse' \in Seq(BOOLEAN) /\ Len(inUse') <= MaxConnections
      /\ DOMAIN inUse' = DOMAIN inUse /\ inUse'[c] = FALSE
      /\ \A d \in DOMAIN inUse : d # c => inUse'[d] = inUse[d]
  BY <1>0, <1>1, <1>3, ReleaseMarks
<1>5. /\ handle'[w] = NoConnection /\ pc'[w] = "wait"
      /\ \A v \in Workers \ {w} : handle'[v] = handle[v] /\ pc'[v] = pc[v]
  BY <1>0, <1>1
<1>6. HandleInv'
  BY <1>0, <1>1, <1>2, <1>5 DEF HandleInv
<1>7. MarkedInv'
  <2>1. \A v \in Workers :
          handle'[v] # NoConnection => handle'[v] \in DOMAIN inUse' /\ inUse'[handle'[v]]
    BY <1>0, <1>2, <1>3, <1>4, <1>5 DEF MarkedInv, ExclusiveInv
  <2>2. \A i \in DOMAIN closing :
          closing[i].connection \in DOMAIN inUse' /\ inUse'[closing[i].connection]
    BY <1>0, <1>3, <1>4 DEF MarkedInv, ExclusiveInv
  <2> QED
    BY <1>1, <2>1, <2>2 DEF MarkedInv
<1>8. ExclusiveInv'
  <2>1. \A i \in DOMAIN closing : closing[i].connection # NoConnection
    <3>1. \A i \in DOMAIN closing : closing[i] \in ClosingStream
      BY <1>0
    <3> QED
      BY <3>1 DEF ClosingStream, Connections, NoConnection
  <2> QED
    BY <1>0, <1>1, <1>5, <2>1 DEF ExclusiveInv
<1>9. OwnedInv'
  <2> SUFFICES ASSUME NEW d \in DOMAIN inUse', inUse'[d]
               PROVE  \/ \E v \in Workers : handle'[v] = d
                      \/ \E i \in DOMAIN closing : closing[i].connection = d
    BY <1>1 DEF OwnedInv
  <2>1. d # c /\ d \in DOMAIN inUse /\ inUse[d]
    BY <1>4
  <2> QED
    BY <1>0, <1>3, <1>5, <2>1 DEF OwnedInv
<1>10. NewInv'
  BY <1>0, <1>1 DEF NewInv, lifeVars
<1>11. TypeOK'
  <2>1. LifeTypes' /\ QueueTypes'
    BY <1>0, <1>1, FrameTypes
  <2>2. WorkTypes' /\ ResultTypes'
    BY <1>0, <1>1, AbandonTypes
  <2>3. StreamTypes'
    BY <1>0, <1>1 DEF TypeOK, StreamTypes
  <2>4. PoolTypes'
    BY <1>0, <1>1, <1>4 DEF PoolTypes
  <2> QED
    BY <2>1, <2>2, <2>3, <2>4 DEF TypeOK
<1> QED
  BY <1>6, <1>7, <1>8, <1>9, <1>10, <1>11 DEF Inv

\* The closing thread gives back the connection of the task it has finished.
LEMMA FinishOwned ==
  ASSUME Inv, closing # <<>>, closing' = Tail(closing), Release(Head(closing).connection),
         UNCHANGED <<lifeVars, workVars, streamVars>>
  PROVE  HandleInv' /\ MarkedInv' /\ ExclusiveInv' /\ OwnedInv' /\ NewInv' /\ PoolTypes'
<1>0. /\ HandleInv /\ MarkedInv /\ ExclusiveInv /\ OwnedInv /\ NewInv
      /\ inUse \in Seq(BOOLEAN) /\ Len(inUse) <= MaxConnections
      /\ closing \in Seq(ClosingStream)
      /\ UNCHANGED <<handle, writer, pc, phase>>
  BY DEF Inv, TypeOK, PoolTypes, lifeVars, workVars, streamVars
<1> DEFINE n == Len(closing)
<1>1. /\ n \in Nat /\ n > 0 /\ DOMAIN closing = 1 .. n
      /\ closing' \in Seq(ClosingStream) /\ DOMAIN closing' = 1 .. n - 1
      /\ \A i \in 1 .. n - 1 : closing'[i] = closing[i + 1] /\ i + 1 \in 1 .. n /\ i + 1 # 1
      /\ Head(closing) = closing[1] /\ 1 \in 1 .. n
  BY <1>0
<1>2. PICK c \in DOMAIN inUse : c = closing[1].connection
  BY <1>0, <1>1 DEF MarkedInv
<1>3. /\ inUse' \in Seq(BOOLEAN) /\ Len(inUse') <= MaxConnections
      /\ DOMAIN inUse' = DOMAIN inUse /\ inUse'[c] = FALSE
      /\ \A d \in DOMAIN inUse : d # c => inUse'[d] = inUse[d]
  BY <1>0, <1>1, <1>2, ReleaseMarks
<1>4. HandleInv' /\ PoolTypes'
  BY <1>0, <1>1, <1>3 DEF HandleInv, PoolTypes
<1>5. MarkedInv'
  <2>1. \A w \in Workers :
          handle[w] # NoConnection => handle[w] \in DOMAIN inUse' /\ inUse'[handle[w]]
    BY <1>0, <1>1, <1>2, <1>3 DEF MarkedInv, ExclusiveInv
  <2>2. \A i \in 2 .. n : closing[i].connection \in DOMAIN inUse' /\ inUse'[closing[i].connection]
    <3>1. \A i \in 2 .. n : i \in 1 .. n /\ i # 1
      BY <1>1
    <3> QED
      BY <1>0, <1>1, <1>2, <1>3, <3>1 DEF MarkedInv, ExclusiveInv
  <2>3. \A i \in 1 .. n - 1 : i + 1 \in 2 .. n
    BY <1>1
  <2>4. \A i \in 1 .. n - 1 :
          closing'[i].connection \in DOMAIN inUse' /\ inUse'[closing'[i].connection]
    BY <1>1, <2>2, <2>3
  <2> QED
    BY <1>0, <1>1, <2>1, <2>4 DEF MarkedInv
<1>6. ExclusiveInv'
  <2>1. \A i, j \in 1 .. n - 1 : closing'[i].connection = closing'[j].connection => i = j
    <3>1. SUFFICES ASSUME NEW i \in 1 .. n - 1, NEW j \in 1 .. n - 1,
                          closing'[i].connection = closing'[j].connection
                   PROVE  i = j
      OBVIOUS
    <3>2. PICK k, l \in DOMAIN closing : k = i + 1 /\ l = j + 1
      BY <1>1
    <3>3. closing[k].connection = closing[l].connection
      BY <1>1, <3>1, <3>2
    <3>4. k = l
      BY <1>0, <3>3 DEF ExclusiveInv
    <3> QED
      BY <3>2, <3>4
  <2>2. \A w \in Workers : \A i \in 1 .. n - 1 : handle[w] # closing'[i].connection
    BY <1>0, <1>1 DEF ExclusiveInv
  <2> QED
    BY <1>0, <1>1, <2>1, <2>2 DEF ExclusiveInv
<1>7. OwnedInv'
  <2> SUFFICES ASSUME NEW d \in DOMAIN inUse', inUse'[d]
               PROVE  \/ \E w \in Workers : handle[w] = d
                      \/ \E i \in 1 .. n - 1 : closing'[i].connection = d
    BY <1>0, <1>1 DEF OwnedInv
  <2>1. d # c /\ d \in DOMAIN inUse /\ inUse[d]
    BY <1>3
  <2>2. CASE \E i \in 1 .. n : closing[i].connection = d
    <3>1. PICK i \in 1 .. n : closing[i].connection = d
      BY <2>2
    <3>2. i # 1
      BY <1>2, <2>1, <3>1
    <3>3. PICK k \in 1 .. n - 1 : i = k + 1
      <4>1. i - 1 \in 1 .. n - 1 /\ i = (i - 1) + 1
        BY <1>1, <3>2
      <4> QED
        BY <4>1
    <3>4. closing'[k].connection = d
      BY <1>1, <3>1, <3>3
    <3> QED
      BY <3>4
  <2> QED
    BY <1>0, <1>1, <2>1, <2>2 DEF OwnedInv
<1>8. NewInv'
  <2>1. phase # "new"
    BY <1>0, <1>2 DEF NewInv
  <2> QED
    BY <1>0, <2>1 DEF NewInv
<1> QED
  BY <1>4, <1>5, <1>6, <1>7, <1>8

-----------------------------------------------------------------------------
(* The step. *)

\* start() creates connections nobody uses.
LEMMA StartStep ==
  ASSUME Inv, Start
  PROVE  Inv'
<1>0. /\ HandleInv /\ MarkedInv /\ ExclusiveInv /\ NewInv /\ TypeOK
  BY DEF Inv
<1>1. phase = "new" /\ phase' = "running" /\ inUse' = [c \in 1 .. MinConnections |-> FALSE]
      /\ UNCHANGED <<forceQuit, queueVars, workVars, streamVars, closing, resultVars>>
  BY DEF Start
<1>2. inUse = <<>>
  BY <1>0, <1>1 DEF NewInv
<1>3. DOMAIN inUse = {}
  BY <1>2
<1>4. /\ \A w \in Workers : handle[w] = NoConnection
      /\ DOMAIN closing = {}
  BY <1>0, <1>3 DEF MarkedInv
<1>5. UNCHANGED <<handle, writer, closing, pc>>
  BY <1>1 DEF streamVars, workVars
<1>6. /\ inUse' \in Seq(BOOLEAN) /\ Len(inUse') = MinConnections
      /\ DOMAIN inUse' = 1 .. MinConnections
      /\ \A c \in DOMAIN inUse' : inUse'[c] = FALSE
  BY <1>1, WriterAssumption
<1>7. HandleInv' /\ MarkedInv' /\ ExclusiveInv' /\ OwnedInv' /\ NewInv'
  BY <1>0, <1>1, <1>4, <1>5, <1>6 DEF HandleInv, MarkedInv, ExclusiveInv, OwnedInv, NewInv
<1>8. QueueTypes' /\ WorkTypes' /\ StreamTypes' /\ ResultTypes'
  BY <1>0, <1>1, FrameTypes
<1>9. PoolTypes'
  BY <1>0, <1>5, <1>6, WriterAssumption DEF TypeOK, PoolTypes
<1>10. LifeTypes'
  BY <1>0, <1>1 DEF TypeOK, LifeTypes
<1> QED
  BY <1>7, <1>8, <1>9, <1>10 DEF Inv, TypeOK

\* push() adds a typed item to a channel and touches nothing else.
LEMMA PushStep ==
  ASSUME Inv, NEW w \in Workers, NEW batch \in Batches, Push(w, batch)
  PROVE  Inv'
<1>0. HandleInv /\ NewInv /\ TypeOK
  BY DEF Inv
<1>1. /\ accepted \in 0 .. MaxItems /\ accepted < MaxItems
      /\ UNCHANGED <<lifeVars, workVars, streamVars, closing, inUse, resultVars>>
  BY <1>0 DEF Push, TypeOK, QueueTypes
<1>2. toItems(batch) \in Seq(Frame)
  BY <1>1, ItemType
<1>3. accepted' \in 0 .. MaxItems
  BY <1>1, WriterAssumption DEF Push
<1>4. queue' \in [Workers -> Seq(Seq(Frame))]
  BY <1>0, <1>2 DEF Push, TypeOK, QueueTypes
<1>5. FramesOf(toItems(batch)) \subseteq Frame
  BY <1>2 DEF FramesOf
<1>6. QueueTypes'
  BY <1>0, <1>3, <1>4, <1>5 DEF Push, TypeOK, QueueTypes
<1>7. LifeTypes' /\ WorkTypes' /\ StreamTypes' /\ PoolTypes' /\ ResultTypes'
  BY <1>0, <1>1, FrameTypes
<1>8. UNCHANGED <<handle, writer, closing, inUse, pc, phase>>
  BY <1>1 DEF lifeVars, workVars, streamVars
<1>9. MarkedInv' /\ ExclusiveInv' /\ OwnedInv'
  BY <1>8, FrameOwned
<1>10. HandleInv' /\ NewInv'
  BY <1>0, <1>8 DEF HandleInv, NewInv
<1> QED
  BY <1>6, <1>7, <1>9, <1>10 DEF Inv, TypeOK

\* A stream that opens makes the connection its own.
LEMMA OpenStep ==
  ASSUME Inv, NEW w \in Workers, OpenStream(w)
  PROVE  Inv'
<1>0. HandleInv /\ NewInv /\ TypeOK /\ WorkTypes /\ StreamTypes
  BY DEF Inv, TypeOK
<1>1. /\ pc[w] = "open" /\ writer' = [writer EXCEPT ![w] = TRUE]
      /\ pc' = [pc EXCEPT ![w] = resume[w]] /\ payloadBytes' = [payloadBytes EXCEPT ![w] = 0]
      /\ UNCHANGED <<lifeVars, queueVars, resume, hand, handle, aged, framesWritten, sent, closing,
                     inUse, resultVars>>
  BY DEF OpenStream
<1>2. resume[w] \in {"age", "frame"}
  BY <1>0 DEF WorkTypes
<1>3. /\ writer'[w] /\ pc'[w] = resume[w]
      /\ \A v \in Workers \ {w} : writer'[v] = writer[v] /\ pc'[v] = pc[v]
  BY <1>0, <1>1 DEF WorkTypes, StreamTypes
<1>4. HandleInv'
  BY <1>0, <1>1, <1>2, <1>3 DEF HandleInv
<1>5. MarkedInv' /\ ExclusiveInv' /\ OwnedInv'
  BY <1>1, FrameOwned
<1>6. NewInv'
  BY <1>0, <1>1 DEF NewInv, lifeVars
<1>7. LifeTypes' /\ QueueTypes' /\ PoolTypes' /\ ResultTypes'
  BY <1>0, <1>1, FrameTypes
<1>8. WorkTypes'
  BY <1>0, <1>1, <1>2 DEF WorkTypes
<1>9. writer' \in [Workers -> BOOLEAN]
  BY <1>0, <1>1, Zenon DEF StreamTypes
<1>10. StreamTypes'
  BY <1>0, <1>1, <1>9 DEF StreamTypes
<1> QED
  BY <1>4, <1>5, <1>6, <1>7, <1>8, <1>10 DEF Inv, TypeOK

\* Steps that close a stream and go on waiting, or wait for a new one.
LEMMA ClosingStep ==
  ASSUME Inv, NEW w \in Workers, writer[w], NEW frames \in Seq(Frame), CloseStream(w, frames),
         UNCHANGED <<lifeVars, queueVars, inUse>>, WorkTypes', ResultTypes',
         pc'[w] \notin {"open", "age", "frame"}, \A v \in Workers \ {w} : pc'[v] = pc[v]
  PROVE  Inv'
<1>0. HandleInv /\ NewInv /\ MarkedInv /\ TypeOK
  BY DEF Inv
<1>1. inUse' = inUse
  OBVIOUS
<1>2. HandleInv' /\ MarkedInv' /\ ExclusiveInv' /\ OwnedInv'
  BY <1>0, <1>1, CloseOwned
<1>3. StreamTypes' /\ PoolTypes'
  BY <1>0, <1>1, CloseTypes
<1>4. LifeTypes' /\ QueueTypes'
  BY <1>0, FrameTypes
<1>5. phase # "new"
  BY <1>0 DEF NewInv, MarkedInv, HandleInv
<1>6. NewInv'
  BY <1>5 DEF NewInv, lifeVars
<1> QED
  BY <1>2, <1>3, <1>4, <1>6 DEF Inv, TypeOK

\* A step that moves one worker on and touches no stream.
LEMMA QuietStep ==
  ASSUME Inv, NEW w \in Workers, UNCHANGED <<lifeVars, streamVars, closing, inUse, resultVars>>,
         WorkTypes', QueueTypes', phase # "new", pc[w] # "open",
         \A v \in Workers \ {w} : pc'[v] = pc[v], pc'[w] # "open",
         pc'[w] = "acquire" => ~writer[w], pc'[w] \in {"age", "frame"} => writer[w]
  PROVE  Inv'
<1>0. TypeOK
  BY DEF Inv
<1>1. UNCHANGED <<handle, writer, closing, inUse, phase>>
  BY DEF streamVars, lifeVars
<1>2. MarkedInv' /\ ExclusiveInv' /\ OwnedInv'
  BY <1>1, FrameOwned
<1>3. HandleInv'
  BY <1>1, FrameHandles
<1>4. NewInv'
  BY <1>1 DEF NewInv
<1>5. LifeTypes' /\ StreamTypes' /\ PoolTypes' /\ ResultTypes'
  BY <1>0, FrameTypes
<1> QED
  BY <1>2, <1>3, <1>4, <1>5 DEF Inv, TypeOK

\* A step of stop() or forceStop().
LEMMA LifeStep ==
  ASSUME Inv, UNCHANGED <<queueVars, workVars, streamVars, closing, inUse, resultVars>>,
         LifeTypes', phase' # "new"
  PROVE  Inv'
<1>0. TypeOK /\ HandleInv
  BY DEF Inv
<1>1. UNCHANGED <<handle, writer, closing, inUse, pc>>
  BY DEF streamVars, workVars
<1>2. MarkedInv' /\ ExclusiveInv' /\ OwnedInv'
  BY <1>1, FrameOwned
<1>3. HandleInv' /\ NewInv'
  BY <1>0, <1>1 DEF HandleInv, NewInv
<1>4. QueueTypes' /\ WorkTypes' /\ StreamTypes' /\ PoolTypes' /\ ResultTypes'
  BY <1>0, FrameTypes
<1> QED
  BY <1>2, <1>3, <1>4 DEF Inv, TypeOK

\* Every step of workerLoop(), of processItem() and of the pool keeps the invariant.
LEMMA WorkerKeeps ==
  ASSUME Inv, NEW w \in Workers, WorkerStep(w)
  PROVE  Inv'
<1>0. /\ TypeOK /\ HandleInv /\ NewInv /\ WorkTypes /\ StreamTypes /\ QueueTypes /\ ResultTypes
      /\ sent[w] \in Seq(Frame) /\ hand[w] \in Seq(Frame) /\ queue[w] \in Seq(Seq(Frame))
  BY DEF Inv, TypeOK, WorkTypes, StreamTypes, QueueTypes
<1>n. pc[w] # "wait" => phase # "new"
  BY <1>0 DEF NewInv
<1>1. CASE WorkerTake(w)
  <2>1. Head(queue[w]) \in Seq(Frame) /\ Tail(queue[w]) \in Seq(Seq(Frame))
    BY <1>0, <1>1 DEF WorkerTake
  <2>2. WorkTypes' /\ QueueTypes'
    BY <1>0, <1>1, <2>1 DEF WorkerTake, WorkTypes, QueueTypes
  <2>3. pc'[w] = (IF writer[w] THEN "age" ELSE "acquire") /\ \A v \in Workers \ {w} : pc'[v] = pc[v]
    BY <1>0, <1>1 DEF WorkerTake, WorkTypes
  <2>4. /\ UNCHANGED <<lifeVars, streamVars, closing, inUse, resultVars>>
        /\ phase # "new" /\ pc[w] # "open" /\ pc'[w] # "open"
        /\ pc'[w] = "acquire" => ~writer[w]
        /\ pc'[w] \in {"age", "frame"} => writer[w]
    BY <1>1, <2>3 DEF WorkerTake
  <2> QED
    BY <2>2, <2>3, <2>4, QuietStep
<1>2. CASE WorkerIdle(w)
  <2>1. /\ writer[w] /\ CloseStream(w, sent[w]) /\ UNCHANGED <<lifeVars, queueVars, inUse>>
        /\ UNCHANGED <<workVars, resultVars>> /\ pc' = pc /\ pc[w] = "wait"
    BY <1>2 DEF WorkerIdle, workVars
  <2>2. WorkTypes' /\ ResultTypes'
    BY <1>0, <2>1, FrameTypes
  <2>3. pc'[w] \notin {"open", "age", "frame"} /\ \A v \in Workers \ {w} : pc'[v] = pc[v]
    BY <2>1
  <2> QED
    BY <1>0, <2>1, <2>2, <2>3, ClosingStep
<1>3. CASE WorkerExit(w)
  <2>1. WorkTypes' /\ QueueTypes'
    BY <1>0, <1>3 DEF WorkerExit, WorkTypes, QueueTypes, queueVars
  <2>2. pc'[w] = "exited" /\ \A v \in Workers \ {w} : pc'[v] = pc[v]
    BY <1>0, <1>3 DEF WorkerExit, WorkTypes
  <2>3. /\ UNCHANGED <<lifeVars, streamVars, closing, inUse, resultVars>>
        /\ phase # "new" /\ pc[w] # "open"
    BY <1>3 DEF WorkerExit
  <2> QED
    BY <2>1, <2>2, <2>3, QuietStep
<1>4. CASE Acquire(w)
  BY <1>4, AcquireStep
<1>5. CASE OpenStream(w)
  BY <1>5, OpenStep
<1>6. CASE OpenFails(w)
  BY <1>6, OpenFailsStep
<1>7. CASE StreamYoung(w)
  <2>1. WorkTypes' /\ QueueTypes'
    BY <1>0, <1>7 DEF StreamYoung, WorkTypes, QueueTypes, queueVars
  <2>2. pc'[w] = "frame" /\ \A v \in Workers \ {w} : pc'[v] = pc[v]
    BY <1>0, <1>7 DEF StreamYoung, WorkTypes
  <2>3. /\ UNCHANGED <<lifeVars, streamVars, closing, inUse, resultVars>>
        /\ phase # "new" /\ pc[w] # "open" /\ writer[w]
    BY <1>0, <1>n, <1>7 DEF StreamYoung, HandleInv
  <2> QED
    BY <2>1, <2>2, <2>3, QuietStep
<1>8. CASE RotateByAge(w)
  <2>1. /\ writer[w] /\ RotateStream(w, sent[w])
        /\ UNCHANGED <<lifeVars, queueVars, inUse, hand, resultVars>>
    BY <1>0, <1>8 DEF RotateByAge, HandleInv
  <2>2. WorkTypes' /\ ResultTypes'
    BY <1>0, <2>1 DEF RotateStream, WorkTypes, ResultTypes, resultVars
  <2>3. /\ pc'[w] \notin {"open", "age", "frame"} /\ \A v \in Workers \ {w} : pc'[v] = pc[v]
        /\ CloseStream(w, sent[w])
    BY <1>0, <2>1 DEF RotateStream, WorkTypes
  <2> QED
    BY <1>0, <2>1, <2>2, <2>3, ClosingStep
<1>9. CASE SkipFrame(w)
  <2>1. Tail(hand[w]) \in Seq(Frame)
    BY <1>0, <1>9 DEF SkipFrame
  <2>2. WorkTypes' /\ QueueTypes'
    BY <1>0, <1>9, <2>1 DEF SkipFrame, WorkTypes, QueueTypes, queueVars
  <2>3. /\ UNCHANGED <<lifeVars, streamVars, closing, inUse, resultVars>> /\ pc' = pc
        /\ phase # "new" /\ pc[w] = "frame" /\ writer[w]
    BY <1>0, <1>n, <1>9 DEF SkipFrame, HandleInv
  <2>4. pc'[w] = "frame" /\ \A v \in Workers \ {w} : pc'[v] = pc[v]
    BY <2>3
  <2> QED
    BY <2>2, <2>3, <2>4, QuietStep
<1>10. CASE RotateByBytes(w)
  <2>1. /\ writer[w] /\ RotateStream(w, sent[w])
        /\ UNCHANGED <<lifeVars, queueVars, inUse, hand, resultVars>>
    BY <1>0, <1>10 DEF RotateByBytes, HandleInv
  <2>2. WorkTypes' /\ ResultTypes'
    BY <1>0, <2>1 DEF RotateStream, WorkTypes, ResultTypes, resultVars
  <2>3. /\ pc'[w] \notin {"open", "age", "frame"} /\ \A v \in Workers \ {w} : pc'[v] = pc[v]
        /\ CloseStream(w, sent[w])
    BY <1>0, <2>1 DEF RotateStream, WorkTypes
  <2> QED
    BY <1>0, <2>1, <2>2, <2>3, ClosingStep
<1>11. CASE WriteFrame(w)
  <2>1. /\ Head(hand[w]) \in Frame /\ Tail(hand[w]) \in Seq(Frame)
        /\ Append(sent[w], Head(hand[w])) \in Seq(Frame)
    BY <1>0, <1>11 DEF WriteFrame
  <2>2. payloadBytes[w] + Head(hand[w]).size \in Nat
    <3>1. Head(hand[w]).size \in Sizes /\ Head(hand[w]).size > 0
      BY <1>11, <2>1 DEF WriteFrame, Sendable, Frame
    <3>2. Head(hand[w]).size \in Nat
      BY <3>1 DEF Sizes, NoTimestamps, NoColumns
    <3>3. payloadBytes[w] \in Nat
      BY <1>0 DEF StreamTypes
    <3> QED
      BY <3>2, <3>3
  <2>3. framesWritten[w] + 1 \in Nat
    BY <1>0 DEF StreamTypes
  <2>4. /\ sent' \in [Workers -> Seq(Frame)]
        /\ framesWritten' \in [Workers -> Nat] /\ payloadBytes' \in [Workers -> Nat]
        /\ UNCHANGED <<handle, writer, aged, closing, inUse, lifeVars, queueVars, pc, resume, resultVars>>
    BY <1>0, <1>11, <2>1, <2>2, <2>3 DEF WriteFrame, StreamTypes
  <2>5. StreamTypes'
    BY <1>0, <2>4 DEF StreamTypes
  <2>6. WorkTypes'
    BY <1>0, <1>11, <2>1 DEF WriteFrame, WorkTypes
  <2>7. LifeTypes' /\ QueueTypes' /\ PoolTypes' /\ ResultTypes'
    BY <1>0, <2>4, FrameTypes
  <2>8. MarkedInv' /\ ExclusiveInv' /\ OwnedInv'
    BY <2>4, FrameOwned
  <2>9. HandleInv' /\ NewInv'
    BY <1>0, <2>4 DEF HandleInv, NewInv, lifeVars
  <2> QED
    BY <2>5, <2>6, <2>7, <2>8, <2>9 DEF Inv, TypeOK
<1>12. CASE WriteLastFrame(w)
  <2>1. /\ Head(hand[w]) \in Frame /\ Tail(hand[w]) \in Seq(Frame)
        /\ Append(sent[w], Head(hand[w])) \in Seq(Frame)
    BY <1>0, <1>12 DEF WriteLastFrame
  <2>2. /\ writer[w] /\ RotateStream(w, Append(sent[w], Head(hand[w])))
        /\ UNCHANGED <<lifeVars, queueVars, inUse, resultVars>>
    BY <1>0, <1>12 DEF WriteLastFrame, HandleInv
  <2>3. WorkTypes' /\ ResultTypes'
    BY <1>0, <1>12, <2>1, <2>2 DEF WriteLastFrame, RotateStream, WorkTypes, ResultTypes, resultVars
  <2>4. /\ pc'[w] \notin {"open", "age", "frame"} /\ \A v \in Workers \ {w} : pc'[v] = pc[v]
        /\ CloseStream(w, Append(sent[w], Head(hand[w])))
    BY <1>0, <2>2 DEF RotateStream, WorkTypes
  <2> QED
    BY <2>1, <2>2, <2>3, <2>4, ClosingStep
<1>13. CASE WriteFails(w)
  <2>1. /\ writer[w] /\ CloseStream(w, sent[w]) /\ Abandon(w)
        /\ UNCHANGED <<lifeVars, queueVars, inUse, resume, ingested>>
    BY <1>0, <1>13 DEF WriteFails, HandleInv
  <2>2. WorkTypes' /\ ResultTypes'
    BY <1>0, <2>1, AbandonTypes
  <2>3. pc'[w] \notin {"open", "age", "frame"} /\ \A v \in Workers \ {w} : pc'[v] = pc[v]
    BY <1>0, <2>1 DEF Abandon, WorkTypes
  <2> QED
    BY <1>0, <2>1, <2>2, <2>3, ClosingStep
<1>14. CASE ItemDone(w)
  <2>1. /\ writer[w] /\ pc' = [pc EXCEPT ![w] = "wait"] /\ pc[w] = "frame"
        /\ UNCHANGED <<lifeVars, queueVars, resume, hand, inUse, resultVars>>
    BY <1>0, <1>14 DEF ItemDone, HandleInv
  <2>2. WorkTypes' /\ ResultTypes' /\ QueueTypes'
    BY <1>0, <2>1 DEF WorkTypes, ResultTypes, QueueTypes, queueVars, resultVars
  <2>3. pc'[w] = "wait" /\ \A v \in Workers \ {w} : pc'[v] = pc[v]
    BY <1>0, <2>1 DEF WorkTypes
  <2>4. CASE CloseStream(w, sent[w])
    BY <1>0, <2>1, <2>2, <2>3, <2>4, ClosingStep
  <2>5. CASE UNCHANGED <<streamVars, closing>>
    BY <1>n, <2>1, <2>2, <2>3, <2>5, QuietStep
  <2> QED
    BY <1>14, <2>4, <2>5 DEF ItemDone
<1> QED
  BY <1>1, <1>2, <1>3, <1>4, <1>5, <1>6, <1>7, <1>8, <1>9, <1>10, <1>11, <1>12, <1>13, <1>14
  DEF WorkerStep, SendStep

\* Every step keeps the invariant.
LEMMA InvStep == Inv /\ [Next]_vars => Inv'
<1> SUFFICES ASSUME Inv, [Next]_vars PROVE Inv'
  OBVIOUS
<1>0. TypeOK /\ HandleInv /\ NewInv /\ LifeTypes /\ PoolTypes /\ ResultTypes
  BY DEF Inv, TypeOK
<1>1. CASE Start
  BY <1>1, StartStep
<1>2. CASE StartFails
  BY <1>0, <1>2, LifeStep DEF StartFails, LifeTypes
<1>3. CASE \E w \in Workers : \E batch \in Batches : Push(w, batch)
  BY <1>3, PushStep
<1>4. CASE \E w \in Workers : WorkerStep(w)
  BY <1>4, WorkerKeeps
<1>5. CASE \E w \in Workers : StreamAges(w)
  <2>1. PICK w \in Workers : StreamAges(w)
    BY <1>5
  <2>2. UNCHANGED <<lifeVars, queueVars, workVars, handle, writer, payloadBytes, framesWritten,
                    sent, closing, inUse, resultVars>>
    BY <2>1 DEF StreamAges
  <2>3. aged' \in [Workers -> BOOLEAN]
    BY <1>0, <2>1, Zenon DEF StreamAges, TypeOK, StreamTypes
  <2>4. StreamTypes'
    BY <1>0, <2>2, <2>3 DEF TypeOK, StreamTypes
  <2>5. LifeTypes' /\ QueueTypes' /\ WorkTypes' /\ PoolTypes' /\ ResultTypes'
    BY <1>0, <2>2, FrameTypes
  <2>6. MarkedInv' /\ ExclusiveInv' /\ OwnedInv'
    BY <2>2, FrameOwned
  <2>7. HandleInv' /\ NewInv'
    BY <1>0, <2>2 DEF HandleInv, NewInv, lifeVars, workVars
  <2> QED
    BY <2>4, <2>5, <2>6, <2>7 DEF Inv, TypeOK
<1>6. CASE CloseStep
  <2>1. /\ closing # <<>> /\ closing' = Tail(closing) /\ Release(Head(closing).connection)
        /\ UNCHANGED <<lifeVars, queueVars, workVars, streamVars>>
    BY <1>6 DEF CloseStep, FinishStream, FinishFails
  <2>2. HandleInv' /\ MarkedInv' /\ ExclusiveInv' /\ OwnedInv' /\ NewInv' /\ PoolTypes'
    BY <2>1, FinishOwned
  <2>3. LifeTypes' /\ QueueTypes' /\ WorkTypes' /\ StreamTypes'
    BY <1>0, <2>1, FrameTypes
  <2>4. FramesOf(Head(closing).frames) \subseteq Frame
    <3>1. Head(closing) \in ClosingStream
      BY <1>0, <2>1 DEF PoolTypes
    <3>2. Head(closing).frames \in Seq(Frame)
      BY <3>1 DEF ClosingStream
    <3> QED
      BY <3>2 DEF FramesOf
  <2>5. ResultTypes'
    BY <1>0, <1>6, <2>4 DEF ResultTypes, CloseStep, FinishStream, FinishFails
  <2> QED
    BY <2>2, <2>3, <2>5 DEF Inv, TypeOK
<1>7. CASE StopBegin
  BY <1>0, <1>7, LifeStep DEF StopBegin, LifeTypes
<1>8. CASE \E w \in Workers : DoStop(w)
  <2>1. PICK w \in Workers : DoStop(w)
    BY <1>8
  <2>2. /\ writer[w] /\ CloseStream(w, sent[w]) /\ UNCHANGED <<lifeVars, queueVars, inUse>>
        /\ UNCHANGED <<workVars, resultVars>> /\ pc' = pc /\ pc[w] = "exited"
    BY <2>1 DEF DoStop, AllExited, workVars
  <2>3. WorkTypes' /\ ResultTypes' /\ sent[w] \in Seq(Frame)
    BY <1>0, <2>2, FrameTypes DEF TypeOK, StreamTypes
  <2>4. pc'[w] \notin {"open", "age", "frame"} /\ \A v \in Workers \ {w} : pc'[v] = pc[v]
    BY <2>2
  <2> QED
    BY <2>2, <2>3, <2>4, ClosingStep
<1>9. CASE StopEnd
  BY <1>0, <1>9, LifeStep DEF StopEnd, LifeTypes
<1>10. CASE ForceStop
  <2>1. LifeTypes' /\ phase' # "new"
    BY <1>0, <1>10 DEF ForceStop, LifeTypes
  <2> QED
    BY <1>10, <2>1, LifeStep DEF ForceStop
<1>11. CASE UNCHANGED vars
  <2>1. UNCHANGED <<lifeVars, queueVars, workVars, streamVars, closing, inUse, resultVars>>
    BY <1>11 DEF vars
  <2>2. TypeOK'
    BY <1>0, <2>1, FrameTypes DEF TypeOK
  <2>3. MarkedInv' /\ ExclusiveInv' /\ OwnedInv'
    BY <2>1, FrameOwned DEF streamVars
  <2>4. HandleInv' /\ NewInv'
    BY <1>0, <2>1 DEF HandleInv, NewInv, lifeVars, workVars, streamVars
  <2> QED
    BY <2>2, <2>3, <2>4 DEF Inv
<1> QED
  BY <1>1, <1>2, <1>3, <1>4, <1>5, <1>6, <1>7, <1>8, <1>9, <1>10, <1>11
  DEF Next, StopStep, Terminated

-----------------------------------------------------------------------------

\* The invariant holds throughout every behaviour.
THEOREM Invariant == Spec => []Inv
BY InvInit, InvStep, PTL DEF Spec

\* Every variable of the ingestion writer and of its connection pool keeps its
\* type; in particular the pool never grows beyond max-conn.
THEOREM TypeCorrect == Spec => []TypeOK
<1>1. Inv => TypeOK
  BY DEF Inv
<1> QED
  BY <1>1, Invariant, PTL

\* In every reachable state a pooled connection is in use exactly while one
\* handle owns it, for any number of workers and connections: no path of
\* ensureStream(), closeStream() or the closing thread leaks or shares one.
THEOREM ConnectionsAreOwned == Spec => []ConnectionsOwned
<1>1. Inv => ConnectionsOwned
  <2> SUFFICES ASSUME Inv, NEW c \in DOMAIN inUse
               PROVE  /\ inUse[c] <=> Owners(c) # {}
                      /\ \A x, y \in Owners(c) : x = y
    BY DEF ConnectionsOwned
  <2>0. MarkedInv /\ ExclusiveInv /\ OwnedInv /\ inUse \in Seq(BOOLEAN)
    BY DEF Inv, TypeOK, PoolTypes
  <2>1. c # NoConnection
    BY <2>0 DEF NoConnection
  <2>2. ASSUME NEW x \in Owners(c)
        PROVE  \/ \E w \in Workers : x = <<"worker", w>> /\ handle[w] = c
               \/ \E i \in DOMAIN closing : x = <<"closing", i>> /\ closing[i].connection = c
    BY <2>2 DEF Owners
  <2>3. inUse[c] => Owners(c) # {}
    <3>1. \A w \in Workers : handle[w] = c => <<"worker", w>> \in Owners(c)
      BY DEF Owners
    <3>2. \A i \in DOMAIN closing : closing[i].connection = c => <<"closing", i>> \in Owners(c)
      BY DEF Owners
    <3> QED
      BY <2>0, <3>1, <3>2 DEF OwnedInv
  <2>4. Owners(c) # {} => inUse[c]
    BY <2>0, <2>1, <2>2 DEF MarkedInv
  <2>5. \A x, y \in Owners(c) : x = y
    BY <2>0, <2>1, <2>2 DEF ExclusiveInv
  <2> QED
    BY <2>0, <2>3, <2>4, <2>5
<1> QED
  BY <1>1, Invariant, PTL

-----------------------------------------------------------------------------
(* Where the frames are. *)

\* Every frame that is somewhere.
Placed == Waiting \cup InHand \cup InStream \cup InClosing \cup ingested \cup failed

\* A frame is in one of the six places at most.
AtOne(f) ==
  /\ f \in Waiting => f \notin InHand /\ f \notin InStream /\ f \notin InClosing
                      /\ f \notin ingested /\ f \notin failed
  /\ f \in InHand => f \notin InStream /\ f \notin InClosing /\ f \notin ingested /\ f \notin failed
  /\ f \in InStream => f \notin InClosing /\ f \notin ingested /\ f \notin failed
  /\ f \in InClosing => f \notin ingested /\ f \notin failed
  /\ f \in ingested => f \notin failed

Apart == \A f \in Placed : AtOne(f)

\* Items are numbered upwards, so the frames of the next one are new.
Known == \A f \in Placed : f.item <= accepted

\* Only frames that can be sent are owed to the caller, and each is somewhere.
Covered == \A f \in offered : Sendable(f) /\ f \in Placed

\* A sequence of frames without repetition.
Distinct(s) == \A i, j \in DOMAIN s : s[i] = s[j] => i = j

ItemsDistinct ==
  \A w \in Workers : Distinct(hand[w]) /\ \A i \in DOMAIN queue[w] : Distinct(queue[w][i])

\* Two queued items, two hands, two open and two closing streams share no frame.
QueueApart ==
  \A w, v \in Workers : \A i \in DOMAIN queue[w], j \in DOMAIN queue[v] :
    FramesOf(queue[w][i]) \cap FramesOf(queue[v][j]) # {} => w = v /\ i = j
HandsApart == \A w, v \in Workers : FramesOf(hand[w]) \cap FramesOf(hand[v]) # {} => w = v
StreamsApart == \A w, v \in Workers : FramesOf(sent[w]) \cap FramesOf(sent[v]) # {} => w = v
ClosingApart ==
  \A i, j \in DOMAIN closing :
    FramesOf(closing[i].frames) \cap FramesOf(closing[j].frames) # {} => i = j

\* A worker between two items holds nothing, a closed stream carries nothing.
EmptyInv ==
  \A w \in Workers :
    /\ pc[w] \in {"wait", "exited"} => hand[w] = <<>>
    /\ ~writer[w] => sent[w] = <<>>

FrameInv ==
  /\ Apart /\ Known /\ Covered
  /\ ItemsDistinct /\ QueueApart /\ HandsApart /\ StreamsApart /\ ClosingApart
  /\ EmptyInv

-----------------------------------------------------------------------------
(* Membership in the places, and how the places change. *)

\* An empty sequence carries no frame.
LEMMA FramesOfEmpty == FramesOf(<<>>) = {} /\ Distinct(<<>>)
BY DEF FramesOf, Distinct

\* A sequence that grows carries one frame more.
LEMMA FramesOfAppend ==
  ASSUME NEW s \in Seq(Frame), NEW f \in Frame
  PROVE  FramesOf(Append(s, f)) = FramesOf(s) \cup {f}
<1>1. /\ Len(s) \in Nat /\ DOMAIN s = 1 .. Len(s) /\ DOMAIN Append(s, f) = 1 .. Len(s) + 1
      /\ \A i \in 1 .. Len(s) : Append(s, f)[i] = s[i]
      /\ Append(s, f)[Len(s) + 1] = f
  OBVIOUS
<1>2. \A i \in 1 .. Len(s) + 1 : i \in 1 .. Len(s) \/ i = Len(s) + 1
  BY <1>1
<1>3. 1 .. Len(s) \subseteq 1 .. Len(s) + 1 /\ Len(s) + 1 \in 1 .. Len(s) + 1
  BY <1>1
<1> QED
  BY <1>1, <1>2, <1>3 DEF FramesOf

\* A sequence without repetition that loses its head loses that frame.
LEMMA FramesOfTail ==
  ASSUME NEW s \in Seq(Frame), s # <<>>, Distinct(s)
  PROVE  /\ FramesOf(Tail(s)) = FramesOf(s) \ {Head(s)}
         /\ Head(s) \in FramesOf(s)
         /\ Distinct(Tail(s))
<1>1. /\ Len(s) \in Nat \ {0} /\ DOMAIN s = 1 .. Len(s) /\ DOMAIN Tail(s) = 1 .. Len(s) - 1
      /\ \A i \in 1 .. Len(s) - 1 : Tail(s)[i] = s[i + 1]
      /\ Head(s) = s[1]
  OBVIOUS
<1>2. \A i \in 1 .. Len(s) - 1 : i + 1 \in 1 .. Len(s) /\ i + 1 # 1
  BY <1>1
<1>3. \A i \in 1 .. Len(s) : i # 1 => i - 1 \in 1 .. Len(s) - 1 /\ (i - 1) + 1 = i
  BY <1>1
<1>4. 1 \in 1 .. Len(s)
  BY <1>1
<1>5. \A i \in 1 .. Len(s) : i # 1 => s[i] # s[1]
  BY <1>1, <1>4 DEF Distinct
<1>6. FramesOf(Tail(s)) \subseteq FramesOf(s) \ {Head(s)}
  BY <1>1, <1>2, <1>5 DEF FramesOf
<1>7. FramesOf(s) \ {Head(s)} \subseteq FramesOf(Tail(s))
  <2> SUFFICES ASSUME NEW i \in 1 .. Len(s), s[i] # s[1] PROVE s[i] \in FramesOf(Tail(s))
    BY <1>1 DEF FramesOf
  <2>1. i - 1 \in 1 .. Len(s) - 1 /\ (i - 1) + 1 = i
    BY <1>3
  <2>2. Tail(s)[i - 1] = s[i]
    BY <1>1, <2>1
  <2> QED
    BY <1>1, <2>1, <2>2 DEF FramesOf
<1>8. Distinct(Tail(s))
  <2> SUFFICES ASSUME NEW i \in 1 .. Len(s) - 1, NEW j \in 1 .. Len(s) - 1, Tail(s)[i] = Tail(s)[j]
               PROVE  i = j
    BY <1>1 DEF Distinct
  <2>1. s[i + 1] = s[j + 1] /\ i + 1 \in 1 .. Len(s) /\ j + 1 \in 1 .. Len(s)
    BY <1>1, <1>2
  <2>2. i + 1 = j + 1
    BY <1>1, <2>1 DEF Distinct
  <2> QED
    BY <1>1, <2>2
<1>9. Head(s) \in FramesOf(s)
  BY <1>1, <1>4 DEF FramesOf
<1> QED
  BY <1>6, <1>7, <1>8, <1>9

\* What it means to be in a place, before and after a step.
LEMMA PlaceMembers ==
  \A f :
    /\ f \in Waiting <=> \E w \in Workers : \E i \in DOMAIN queue[w] : f \in FramesOf(queue[w][i])
    /\ f \in Waiting' <=> \E w \in Workers : \E i \in DOMAIN queue'[w] : f \in FramesOf(queue'[w][i])
    /\ f \in InHand <=> \E w \in Workers : f \in FramesOf(hand[w])
    /\ f \in InHand' <=> \E w \in Workers : f \in FramesOf(hand'[w])
    /\ f \in InStream <=> \E w \in Workers : f \in FramesOf(sent[w])
    /\ f \in InStream' <=> \E w \in Workers : f \in FramesOf(sent'[w])
    /\ f \in InClosing <=> \E i \in DOMAIN closing : f \in FramesOf(closing[i].frames)
    /\ f \in InClosing' <=> \E i \in DOMAIN closing' : f \in FramesOf(closing'[i].frames)
<1>1. \A f : f \in InHand <=> \E w \in Workers : f \in FramesOf(hand[w])
  BY DEF InHand
<1>2. \A f : f \in InHand' <=> \E w \in Workers : f \in FramesOf(hand'[w])
  BY DEF InHand, FramesOf
<1>3. \A f : f \in InStream <=> \E w \in Workers : f \in FramesOf(sent[w])
  BY DEF InStream
<1>4. \A f : f \in InStream' <=> \E w \in Workers : f \in FramesOf(sent'[w])
  BY DEF InStream, FramesOf
<1>5. \A f : f \in InClosing <=> \E i \in DOMAIN closing : f \in FramesOf(closing[i].frames)
  BY DEF InClosing
<1>6. \A f : f \in InClosing' <=> \E i \in DOMAIN closing' : f \in FramesOf(closing'[i].frames)
  BY DEF InClosing, FramesOf
<1>7. \A f : f \in Waiting <=> \E w \in Workers : \E i \in DOMAIN queue[w] : f \in FramesOf(queue[w][i])
  BY DEF Waiting
<1>8. \A f : f \in Waiting' <=> \E w \in Workers : \E i \in DOMAIN queue'[w] : f \in FramesOf(queue'[w][i])
  BY DEF Waiting, FramesOf
<1> QED
  BY <1>1, <1>2, <1>3, <1>4, <1>5, <1>6, <1>7, <1>8

\* A hand that changes changes the frames in hand accordingly.
LEMMA HandMoves ==
  ASSUME hand \in [Workers -> Seq(Frame)], HandsApart, NEW w \in Workers, NEW s,
         hand' = [hand EXCEPT ![w] = s],
         \A f \in FramesOf(s) : f \in InHand => f \in FramesOf(hand[w])
  PROVE  /\ \A f : f \in InHand' <=> (f \in InHand /\ f \notin FramesOf(hand[w])) \/ f \in FramesOf(s)
         /\ HandsApart'
<1>1. hand'[w] = s /\ \A v \in Workers \ {w} : hand'[v] = hand[v]
  OBVIOUS
<1>2. \A v \in Workers \ {w} : \A f \in FramesOf(hand[v]) : f \notin FramesOf(hand[w])
  BY DEF HandsApart
<1>3. \A v \in Workers : \A f \in FramesOf(hand[v]) : f \in InHand
  BY PlaceMembers
<1>4. \A f : f \in InHand' <=> (f \in InHand /\ f \notin FramesOf(hand[w])) \/ f \in FramesOf(s)
  <2> TAKE f
  <2>1. f \in InHand' <=> \E v \in Workers : f \in FramesOf(hand'[v])
    BY PlaceMembers
  <2>2. f \in InHand <=> \E v \in Workers : f \in FramesOf(hand[v])
    BY PlaceMembers
  <2> QED
    BY <1>1, <1>2, <2>1, <2>2
<1>5. \A v \in Workers \ {w} : \A f \in FramesOf(hand[v]) : f \notin FramesOf(s)
  BY <1>2, <1>3
<1>6. \A v, u \in Workers : FramesOf(hand'[v]) \cap FramesOf(hand'[u]) # {} => v = u
  <2> TAKE v, u \in Workers
  <2>1. CASE v = w /\ u # w
    BY <1>1, <1>5, <2>1
  <2>2. CASE v # w /\ u = w
    BY <1>1, <1>5, <2>2
  <2>3. CASE v # w /\ u # w
    BY <1>1, <2>3 DEF HandsApart
  <2> QED
    BY <2>1, <2>2, <2>3
<1> QED
  BY <1>4, <1>6 DEF HandsApart, FramesOf

\* A stream that changes changes the frames in open streams accordingly.
LEMMA StreamMoves ==
  ASSUME sent \in [Workers -> Seq(Frame)], StreamsApart, NEW w \in Workers, NEW s,
         sent' = [sent EXCEPT ![w] = s],
         \A f \in FramesOf(s) : f \in InStream => f \in FramesOf(sent[w])
  PROVE  /\ \A f : f \in InStream' <=>
                     (f \in InStream /\ f \notin FramesOf(sent[w])) \/ f \in FramesOf(s)
         /\ StreamsApart'
<1>1. sent'[w] = s /\ \A v \in Workers \ {w} : sent'[v] = sent[v]
  OBVIOUS
<1>2. \A v \in Workers \ {w} : \A f \in FramesOf(sent[v]) : f \notin FramesOf(sent[w])
  BY DEF StreamsApart
<1>3. \A v \in Workers : \A f \in FramesOf(sent[v]) : f \in InStream
  BY PlaceMembers
<1>4. \A f : f \in InStream' <=>
               (f \in InStream /\ f \notin FramesOf(sent[w])) \/ f \in FramesOf(s)
  <2> TAKE f
  <2>1. f \in InStream' <=> \E v \in Workers : f \in FramesOf(sent'[v])
    BY PlaceMembers
  <2>2. f \in InStream <=> \E v \in Workers : f \in FramesOf(sent[v])
    BY PlaceMembers
  <2> QED
    BY <1>1, <1>2, <2>1, <2>2
<1>5. \A v \in Workers \ {w} : \A f \in FramesOf(sent[v]) : f \notin FramesOf(s)
  BY <1>2, <1>3
<1>6. \A v, u \in Workers : FramesOf(sent'[v]) \cap FramesOf(sent'[u]) # {} => v = u
  <2> TAKE v, u \in Workers
  <2>1. CASE v = w /\ u # w
    BY <1>1, <1>5, <2>1
  <2>2. CASE v # w /\ u = w
    BY <1>1, <1>5, <2>2
  <2>3. CASE v # w /\ u # w
    BY <1>1, <2>3 DEF StreamsApart
  <2> QED
    BY <2>1, <2>2, <2>3
<1> QED
  BY <1>4, <1>6 DEF StreamsApart, FramesOf

\* A queued item adds its frames to the waiting ones.
LEMMA QueuePush ==
  ASSUME queue \in [Workers -> Seq(Seq(Frame))], QueueApart, NEW w \in Workers,
         NEW s \in Seq(Frame), Distinct(s), \A f \in FramesOf(s) : f \notin Waiting,
         \A v \in Workers : \A i \in DOMAIN queue[v] : Distinct(queue[v][i]),
         queue' = [queue EXCEPT ![w] = Append(queue[w], s)]
  PROVE  /\ \A f : f \in Waiting' <=> f \in Waiting \/ f \in FramesOf(s)
         /\ \A v \in Workers : \A i \in DOMAIN queue'[v] : Distinct(queue'[v][i])
         /\ QueueApart'
<1>1. PICK n \in Nat : n = Len(queue[w])
  OBVIOUS
<1>2. /\ DOMAIN queue[w] = 1 .. n /\ DOMAIN queue'[w] = 1 .. n + 1
      /\ \A i \in 1 .. n : queue'[w][i] = queue[w][i]
      /\ queue'[w][n + 1] = s
      /\ \A v \in Workers \ {w} : queue'[v] = queue[v]
  <2>1. queue[w] \in Seq(Seq(Frame)) /\ queue'[w] = Append(queue[w], s)
    OBVIOUS
  <2>2. \A v \in Workers \ {w} : queue'[v] = queue[v]
    OBVIOUS
  <2> QED
    BY <1>1, <2>1, <2>2
<1>3. /\ \A i \in 1 .. n + 1 : i \in 1 .. n \/ i = n + 1
      /\ 1 .. n \subseteq 1 .. n + 1 /\ n + 1 \in 1 .. n + 1
  BY <1>1
<1>4. \A v \in Workers : \A i \in DOMAIN queue'[v] :
        \/ i \in DOMAIN queue[v] /\ queue'[v][i] = queue[v][i]
        \/ v = w /\ i = n + 1 /\ queue'[v][i] = s
  BY <1>2, <1>3
<1>5. \A v \in Workers : \A i \in DOMAIN queue[v] : i \in DOMAIN queue'[v] /\ queue'[v][i] = queue[v][i]
  BY <1>2, <1>3
<1>6. \A v \in Workers : \A i \in DOMAIN queue[v] : \A f \in FramesOf(queue[v][i]) : f \in Waiting
  BY PlaceMembers
<1>7. \A f : f \in Waiting' <=> f \in Waiting \/ f \in FramesOf(s)
  <2> TAKE f
  <2>1. f \in Waiting' <=> \E v \in Workers : \E i \in DOMAIN queue'[v] : f \in FramesOf(queue'[v][i])
    BY PlaceMembers
  <2>2. f \in Waiting <=> \E v \in Workers : \E i \in DOMAIN queue[v] : f \in FramesOf(queue[v][i])
    BY PlaceMembers
  <2>3. f \in Waiting' => f \in Waiting \/ f \in FramesOf(s)
    BY <1>4, <2>1, <2>2
  <2>4. f \in Waiting => f \in Waiting'
    BY <1>5, <2>1, <2>2
  <2>5. f \in FramesOf(s) => f \in Waiting'
    BY <1>2, <1>3, <2>1
  <2> QED
    BY <2>3, <2>4, <2>5
<1>8. \A v \in Workers : \A i \in DOMAIN queue'[v] : Distinct(queue'[v][i])
  BY <1>4
<1>9. ASSUME NEW u \in Workers, NEW v \in Workers, NEW i \in DOMAIN queue'[u],
             NEW j \in DOMAIN queue'[v], FramesOf(queue'[u][i]) \cap FramesOf(queue'[v][j]) # {}
      PROVE  u = v /\ i = j
  <2>1. PICK f : f \in FramesOf(queue'[u][i]) /\ f \in FramesOf(queue'[v][j])
    BY <1>9
  <2>2. CASE i \in DOMAIN queue[u] /\ queue'[u][i] = queue[u][i]
             /\ j \in DOMAIN queue[v] /\ queue'[v][j] = queue[v][j]
    BY <1>9, <2>2 DEF QueueApart
  <2>3. CASE f \in FramesOf(s)
    BY <1>4, <1>6, <2>1, <2>3
  <2> QED
    BY <1>4, <2>1, <2>2, <2>3
<1> QED
  BY <1>7, <1>8, <1>9 DEF QueueApart, FramesOf

\* The item taken off a queue takes its frames along, and no other item's.
LEMMA QueuePop ==
  ASSUME queue \in [Workers -> Seq(Seq(Frame))], QueueApart, NEW w \in Workers, queue[w] # <<>>,
         \A v \in Workers : \A i \in DOMAIN queue[v] : Distinct(queue[v][i]),
         queue' = [queue EXCEPT ![w] = Tail(queue[w])]
  PROVE  /\ \A f : f \in Waiting' <=> f \in Waiting /\ f \notin FramesOf(Head(queue[w]))
         /\ \A f \in FramesOf(Head(queue[w])) : f \in Waiting
         /\ Head(queue[w]) \in Seq(Frame) /\ Distinct(Head(queue[w]))
         /\ \A v \in Workers : \A i \in DOMAIN queue'[v] : Distinct(queue'[v][i])
         /\ QueueApart'
<1>1. PICK n \in Nat \ {0}, h \in Seq(Frame) : n = Len(queue[w]) /\ h = Head(queue[w])
  <2>1. queue[w] \in Seq(Seq(Frame))
    OBVIOUS
  <2>2. Len(queue[w]) \in Nat \ {0} /\ Head(queue[w]) \in Seq(Frame)
    BY <2>1
  <2> QED
    BY <2>2
<1>2. /\ DOMAIN queue[w] = 1 .. n /\ DOMAIN queue'[w] = 1 .. n - 1
      /\ \A i \in 1 .. n - 1 : queue'[w][i] = queue[w][i + 1]
      /\ queue[w][1] = h
      /\ \A v \in Workers \ {w} : queue'[v] = queue[v]
  <2>1. PICK q \in Seq(Seq(Frame)) : q = queue[w] /\ q # <<>>
    OBVIOUS
  <2>2. queue'[w] = Tail(q) /\ \A v \in Workers \ {w} : queue'[v] = queue[v]
    BY <2>1
  <2>3. /\ DOMAIN q = 1 .. Len(q) /\ DOMAIN Tail(q) = 1 .. Len(q) - 1
        /\ \A i \in 1 .. Len(q) - 1 : Tail(q)[i] = q[i + 1]
        /\ q[1] = Head(q)
    BY <2>1
  <2> QED
    BY <1>1, <2>1, <2>2, <2>3
<1>3. /\ \A i \in 1 .. n - 1 : i + 1 \in 1 .. n /\ i + 1 # 1
      /\ \A i \in 1 .. n : i # 1 => i - 1 \in 1 .. n - 1 /\ (i - 1) + 1 = i
      /\ 1 \in 1 .. n
  BY <1>1
\* Where an entry of the shorter queues was before.
<1>4. ASSUME NEW v \in Workers, NEW i \in DOMAIN queue'[v]
      PROVE  \E k \in DOMAIN queue[v] :
               /\ queue'[v][i] = queue[v][k]
               /\ (v = w /\ k = i + 1 /\ i \in Nat) \/ (v # w /\ k = i)
  <2>1. CASE v = w
    <3>1. i \in 1 .. n - 1 /\ i \in Nat
      BY <1>1, <1>2, <1>4, <2>1
    <3> QED
      BY <1>2, <1>3, <2>1, <3>1
  <2>2. CASE v # w
    BY <1>2, <1>4, <2>2
  <2> QED
    BY <2>1, <2>2
<1>5. \A v \in Workers : \A k \in DOMAIN queue[v] :
        (v = w /\ k = 1) \/ \E i \in DOMAIN queue'[v] : queue'[v][i] = queue[v][k]
  <2> TAKE v \in Workers
  <2> TAKE k \in DOMAIN queue[v]
  <2>1. CASE v = w /\ k # 1
    <3>1. k - 1 \in DOMAIN queue'[w] /\ queue'[w][k - 1] = queue[w][k]
      BY <1>2, <1>3, <2>1
    <3> QED
      BY <2>1, <3>1
  <2>2. CASE v # w
    BY <1>2, <2>2
  <2> QED
    BY <2>1, <2>2
<1>6. \A v \in Workers : \A k \in DOMAIN queue[v] :
        FramesOf(queue[v][k]) \cap FramesOf(h) # {} => v = w /\ k = 1
  <2> TAKE v \in Workers
  <2> TAKE k \in DOMAIN queue[v]
  <2>1. 1 \in DOMAIN queue[w] /\ FramesOf(queue[w][1]) = FramesOf(h)
    BY <1>2, <1>3
  <2> QED
    BY <2>1 DEF QueueApart
<1>7. \A f \in FramesOf(h) : f \in Waiting
  <2> TAKE f \in FramesOf(h)
  <2>1. 1 \in DOMAIN queue[w] /\ f \in FramesOf(queue[w][1])
    BY <1>2, <1>3
  <2> QED
    BY <2>1, PlaceMembers
<1>8. \A f : f \in Waiting' <=> f \in Waiting /\ f \notin FramesOf(h)
  <2> TAKE f
  <2>1. f \in Waiting' <=> \E v \in Workers : \E i \in DOMAIN queue'[v] : f \in FramesOf(queue'[v][i])
    BY PlaceMembers
  <2>2. f \in Waiting <=> \E v \in Workers : \E i \in DOMAIN queue[v] : f \in FramesOf(queue[v][i])
    BY PlaceMembers
  <2>3. ASSUME f \in Waiting' PROVE f \in Waiting /\ f \notin FramesOf(h)
    <3>1. PICK v \in Workers : \E i \in DOMAIN queue'[v] : f \in FramesOf(queue'[v][i])
      BY <2>1, <2>3
    <3>2. PICK i \in DOMAIN queue'[v] : f \in FramesOf(queue'[v][i])
      BY <3>1
    <3>3. PICK k \in DOMAIN queue[v] :
             /\ queue'[v][i] = queue[v][k]
             /\ (v = w /\ k = i + 1 /\ i \in Nat) \/ (v # w /\ k = i)
      BY <1>4
    <3>4. f \in FramesOf(queue[v][k])
      BY <3>2, <3>3
    <3>5. ~(v = w /\ k = 1)
      BY <1>2, <3>2, <3>3
    <3>6. f \notin FramesOf(h)
      BY <1>6, <3>4, <3>5
    <3> QED
      BY <2>2, <3>4, <3>6
  <2>4. ASSUME f \in Waiting, f \notin FramesOf(h) PROVE f \in Waiting'
    <3>1. PICK v \in Workers : \E i \in DOMAIN queue[v] : f \in FramesOf(queue[v][i])
      BY <2>2, <2>4
    <3>2. PICK k \in DOMAIN queue[v] : f \in FramesOf(queue[v][k])
      BY <3>1
    <3>3. ~(v = w /\ k = 1)
      BY <1>2, <2>4, <3>2
    <3>4. PICK i \in DOMAIN queue'[v] : queue'[v][i] = queue[v][k]
      BY <1>5, <3>3
    <3> QED
      BY <2>1, <3>2, <3>4
  <2> QED
    BY <2>3, <2>4
<1>9. \A v \in Workers : \A i \in DOMAIN queue'[v] : Distinct(queue'[v][i])
  BY <1>4
<1>10. ASSUME NEW u \in Workers, NEW v \in Workers, NEW i \in DOMAIN queue'[u],
              NEW j \in DOMAIN queue'[v], FramesOf(queue'[u][i]) \cap FramesOf(queue'[v][j]) # {}
       PROVE  u = v /\ i = j
  <2>1. PICK k \in DOMAIN queue[u] :
           /\ queue'[u][i] = queue[u][k]
           /\ (u = w /\ k = i + 1 /\ i \in Nat) \/ (u # w /\ k = i)
    BY <1>4
  <2>2. PICK l \in DOMAIN queue[v] :
           /\ queue'[v][j] = queue[v][l]
           /\ (v = w /\ l = j + 1 /\ j \in Nat) \/ (v # w /\ l = j)
    BY <1>4
  <2>3. u = v /\ k = l
    BY <1>10, <2>1, <2>2, SMTT(30) DEF QueueApart
  <2> QED
    BY <2>1, <2>2, <2>3
<1>11. Distinct(h)
  BY <1>2, <1>3
<1>12. QueueApart'
  BY <1>10 DEF QueueApart, FramesOf
<1> QED
  BY <1>1, <1>7, <1>8, <1>9, <1>11, <1>12

\* A stream handed to the closing thread adds its frames to the closing ones.
LEMMA ClosingPush ==
  ASSUME closing \in Seq(ClosingStream), ClosingApart, NEW t \in ClosingStream,
         closing' = Append(closing, t), \A f \in FramesOf(t.frames) : f \notin InClosing
  PROVE  /\ \A f : f \in InClosing' <=> f \in InClosing \/ f \in FramesOf(t.frames)
         /\ ClosingApart'
<1>1. PICK n \in Nat : n = Len(closing)
  OBVIOUS
<1>2. /\ DOMAIN closing = 1 .. n /\ DOMAIN closing' = 1 .. n + 1
      /\ \A i \in 1 .. n : closing'[i] = closing[i]
      /\ closing'[n + 1] = t
  BY <1>1
<1>3. /\ \A i \in 1 .. n + 1 : i \in 1 .. n \/ i = n + 1
      /\ 1 .. n \subseteq 1 .. n + 1 /\ n + 1 \in 1 .. n + 1
  BY <1>1
<1>4. \A i \in 1 .. n : \A f \in FramesOf(closing[i].frames) : f \in InClosing
  BY <1>2, PlaceMembers
<1>5. \A f : f \in InClosing' <=> f \in InClosing \/ f \in FramesOf(t.frames)
  <2> TAKE f
  <2>1. f \in InClosing' <=> \E i \in 1 .. n + 1 : f \in FramesOf(closing'[i].frames)
    BY <1>2, PlaceMembers
  <2>2. f \in InClosing <=> \E i \in 1 .. n : f \in FramesOf(closing[i].frames)
    BY <1>2, PlaceMembers
  <2> QED
    BY <1>2, <1>3, <2>1, <2>2
<1>6. ASSUME NEW i \in DOMAIN closing', NEW j \in DOMAIN closing',
             FramesOf(closing'[i].frames) \cap FramesOf(closing'[j].frames) # {}
      PROVE  i = j
  <2>1. PICK f : f \in FramesOf(closing'[i].frames) /\ f \in FramesOf(closing'[j].frames)
    BY <1>6
  <2>2. CASE i \in 1 .. n /\ j \in 1 .. n
    BY <1>2, <1>6, <2>2 DEF ClosingApart
  <2>3. CASE i = n + 1 /\ j \in 1 .. n
    BY <1>2, <1>4, <2>1, <2>3
  <2>4. CASE i \in 1 .. n /\ j = n + 1
    BY <1>2, <1>4, <2>1, <2>4
  <2> QED
    BY <1>2, <1>3, <1>6, <2>2, <2>3, <2>4
<1> QED
  BY <1>5, <1>6 DEF ClosingApart, FramesOf

\* A stream the closing thread is done with takes its frames along.
LEMMA ClosingPop ==
  ASSUME closing \in Seq(ClosingStream), ClosingApart, closing # <<>>, closing' = Tail(closing)
  PROVE  /\ \A f : f \in InClosing' <=> f \in InClosing /\ f \notin FramesOf(Head(closing).frames)
         /\ \A f \in FramesOf(Head(closing).frames) : f \in InClosing
         /\ ClosingApart'
<1>1. PICK n \in Nat \ {0}, h \in ClosingStream : n = Len(closing) /\ h = Head(closing)
  OBVIOUS
<1>2. /\ DOMAIN closing = 1 .. n /\ DOMAIN closing' = 1 .. n - 1
      /\ \A i \in 1 .. n - 1 : closing'[i] = closing[i + 1]
      /\ closing[1] = h
  BY <1>1
<1>3. /\ \A i \in 1 .. n - 1 : i + 1 \in 1 .. n /\ i + 1 # 1
      /\ \A i \in 1 .. n : i # 1 => i - 1 \in 1 .. n - 1 /\ (i - 1) + 1 = i
      /\ 1 \in 1 .. n
  BY <1>1
<1>4. \A k \in 1 .. n : FramesOf(closing[k].frames) \cap FramesOf(h.frames) # {} => k = 1
  BY <1>2, <1>3 DEF ClosingApart
<1>5. \A f \in FramesOf(h.frames) : f \in InClosing
  BY <1>2, <1>3, PlaceMembers
<1>6. \A f : f \in InClosing' <=> f \in InClosing /\ f \notin FramesOf(h.frames)
  <2> TAKE f
  <2>1. f \in InClosing' <=> \E i \in 1 .. n - 1 : f \in FramesOf(closing'[i].frames)
    BY <1>2, PlaceMembers
  <2>2. f \in InClosing <=> \E i \in 1 .. n : f \in FramesOf(closing[i].frames)
    BY <1>2, PlaceMembers
  <2>3. ASSUME f \in InClosing' PROVE f \in InClosing /\ f \notin FramesOf(h.frames)
    <3>1. PICK i \in 1 .. n - 1 : f \in FramesOf(closing'[i].frames)
      BY <2>1, <2>3
    <3>2. f \in FramesOf(closing[i + 1].frames) /\ i + 1 \in 1 .. n /\ i + 1 # 1
      BY <1>2, <1>3, <3>1
    <3> QED
      BY <1>4, <2>2, <3>2
  <2>4. ASSUME f \in InClosing, f \notin FramesOf(h.frames) PROVE f \in InClosing'
    <3>1. PICK k \in 1 .. n : f \in FramesOf(closing[k].frames)
      BY <2>2, <2>4
    <3>2. k # 1
      BY <1>2, <2>4, <3>1
    <3>3. k - 1 \in 1 .. n - 1 /\ closing'[k - 1] = closing[k]
      BY <1>2, <1>3, <3>2
    <3> QED
      BY <2>1, <3>1, <3>3
  <2> QED
    BY <2>3, <2>4
<1>7. ASSUME NEW i \in DOMAIN closing', NEW j \in DOMAIN closing',
             FramesOf(closing'[i].frames) \cap FramesOf(closing'[j].frames) # {}
      PROVE  i = j
  <2>1. i + 1 \in 1 .. n /\ j + 1 \in 1 .. n /\ i \in Nat /\ j \in Nat
    BY <1>1, <1>2, <1>3, <1>7
  <2>2. FramesOf(closing[i + 1].frames) \cap FramesOf(closing[j + 1].frames) # {}
    BY <1>2, <1>7
  <2>3. i + 1 = j + 1
    BY <1>2, <2>1, <2>2 DEF ClosingApart
  <2> QED
    BY <2>1, <2>3
<1> QED
  BY <1>1, <1>5, <1>6, <1>7 DEF ClosingApart, FramesOf

\* Whatever is in a place is a frame.
LEMMA PlacedType ==
  ASSUME Inv, NEW f \in Placed
  PROVE  f \in Frame
<1>1. /\ queue \in [Workers -> Seq(Seq(Frame))] /\ hand \in [Workers -> Seq(Frame)]
      /\ sent \in [Workers -> Seq(Frame)] /\ closing \in Seq(ClosingStream)
      /\ ingested \subseteq Frame /\ failed \subseteq Frame
  BY DEF Inv, TypeOK, QueueTypes, WorkTypes, StreamTypes, PoolTypes, ResultTypes
<1>2. ASSUME NEW s \in Seq(Frame), f \in FramesOf(s) PROVE f \in Frame
  BY <1>2 DEF FramesOf
<1>3. CASE f \in Waiting
  <2>1. PICK w \in Workers : \E i \in DOMAIN queue[w] : f \in FramesOf(queue[w][i])
    BY <1>3, PlaceMembers
  <2>2. PICK i \in DOMAIN queue[w] : f \in FramesOf(queue[w][i])
    BY <2>1
  <2>3. queue[w] \in Seq(Seq(Frame))
    BY <1>1
  <2>4. queue[w][i] \in Seq(Frame)
    BY <2>2, <2>3
  <2> QED
    BY <1>2, <2>2, <2>4
<1>4. CASE f \in InHand
  BY <1>1, <1>2, <1>4, PlaceMembers
<1>5. CASE f \in InStream
  BY <1>1, <1>2, <1>5, PlaceMembers
<1>6. CASE f \in InClosing
  <2>1. PICK i \in DOMAIN closing : f \in FramesOf(closing[i].frames)
    BY <1>6, PlaceMembers
  <2>2. closing[i] \in ClosingStream
    BY <1>1, <2>1
  <2>3. closing[i].frames \in Seq(Frame)
    BY <2>2 DEF ClosingStream
  <2> QED
    BY <1>2, <2>1, <2>3
<1> QED
  BY <1>1, <1>3, <1>4, <1>5, <1>6 DEF Placed

\* A part of the state that does not change keeps its place as it was.
LEMMA PlaceStays ==
  ASSUME FrameInv
  PROVE  /\ queue' = queue => /\ \A f : f \in Waiting' <=> f \in Waiting
                              /\ QueueApart'
                              /\ \A w \in Workers : \A i \in DOMAIN queue'[w] : Distinct(queue'[w][i])
         /\ hand' = hand => /\ \A f : f \in InHand' <=> f \in InHand
                            /\ HandsApart'
                            /\ \A w \in Workers : Distinct(hand'[w])
         /\ sent' = sent => (\A f : f \in InStream' <=> f \in InStream) /\ StreamsApart'
         /\ closing' = closing => (\A f : f \in InClosing' <=> f \in InClosing) /\ ClosingApart'
<1>0. ItemsDistinct /\ QueueApart /\ HandsApart /\ StreamsApart /\ ClosingApart
  BY DEF FrameInv
<1>1. ASSUME queue' = queue
      PROVE  /\ \A f : f \in Waiting' <=> f \in Waiting
             /\ QueueApart'
             /\ \A w \in Workers : \A i \in DOMAIN queue'[w] : Distinct(queue'[w][i])
  <2>1. Waiting' = Waiting
    BY <1>1 DEF Waiting, FramesOf
  <2>2. QueueApart'
    BY <1>0, <1>1 DEF QueueApart, FramesOf
  <2>3. \A w \in Workers : \A i \in DOMAIN queue'[w] : Distinct(queue'[w][i])
    BY <1>0, <1>1 DEF ItemsDistinct
  <2> QED
    BY <2>1, <2>2, <2>3
<1>2. ASSUME hand' = hand
      PROVE  /\ \A f : f \in InHand' <=> f \in InHand
             /\ HandsApart'
             /\ \A w \in Workers : Distinct(hand'[w])
  <2>1. InHand' = InHand
    BY <1>2 DEF InHand, FramesOf
  <2>2. HandsApart'
    BY <1>0, <1>2 DEF HandsApart, FramesOf
  <2>3. \A w \in Workers : Distinct(hand'[w])
    BY <1>0, <1>2 DEF ItemsDistinct
  <2> QED
    BY <2>1, <2>2, <2>3
<1>3. ASSUME sent' = sent PROVE (\A f : f \in InStream' <=> f \in InStream) /\ StreamsApart'
  <2>1. InStream' = InStream
    BY <1>3 DEF InStream, FramesOf
  <2>2. StreamsApart'
    BY <1>0, <1>3 DEF StreamsApart, FramesOf
  <2> QED
    BY <2>1, <2>2
<1>4. ASSUME closing' = closing PROVE (\A f : f \in InClosing' <=> f \in InClosing) /\ ClosingApart'
  <2>1. InClosing' = InClosing
    BY <1>4 DEF InClosing, FramesOf
  <2>2. ClosingApart'
    BY <1>0, <1>4 DEF ClosingApart, FramesOf
  <2> QED
    BY <2>1, <2>2
<1> QED
  BY <1>1, <1>2, <1>3, <1>4

\* The queued items and the hands are without repetition after a step.
LEMMA DistinctAfter ==
  ASSUME \A w \in Workers : Distinct(hand'[w]),
         \A w \in Workers : \A i \in DOMAIN queue'[w] : Distinct(queue'[w][i])
  PROVE  ItemsDistinct'
BY DEF ItemsDistinct, Distinct

\* A step that only moves frames from one place to another, or drops frames that are never
\* sent, keeps them apart, known and covered.
LEMMA MovesKeep ==
  ASSUME Apart, Known, Covered, UNCHANGED <<accepted, offered>>,
         \A f \in Placed' : f \in Placed /\ AtOne(f)',
         \A f \in Placed : Sendable(f) => f \in Placed'
  PROVE  Apart' /\ Known' /\ Covered'
<1>1. Apart'
  BY DEF Apart
<1>2. Known'
  BY DEF Known
<1>3. Covered'
  BY DEF Covered, Sendable
<1> QED
  BY <1>1, <1>2, <1>3

\* A step that touches no frame.
LEMMA FrameQuiet ==
  ASSUME FrameInv, UNCHANGED <<accepted, offered, queue, hand, sent, closing, ingested, failed>>,
         EmptyInv'
  PROVE  FrameInv'
<1>1. Apart /\ Known /\ Covered
  BY DEF FrameInv
<1>2. \A f : /\ f \in Waiting' <=> f \in Waiting
             /\ f \in InHand' <=> f \in InHand
             /\ f \in InStream' <=> f \in InStream
             /\ f \in InClosing' <=> f \in InClosing
  BY PlaceStays
<1>3. QueueApart' /\ HandsApart' /\ StreamsApart' /\ ClosingApart' /\ ItemsDistinct'
  BY PlaceStays, DistinctAfter
<1>4. \A f : f \in Placed' <=> f \in Placed
  BY <1>2 DEF Placed
<1>5. \A f : AtOne(f)' <=> AtOne(f)
  BY <1>2 DEF AtOne
<1>6. Apart' /\ Known' /\ Covered'
  BY <1>1, <1>4, <1>5, MovesKeep DEF Apart
<1> QED
  BY <1>3, <1>6 DEF FrameInv

\* push(): the frames of the new item are new.
LEMMA FramePush ==
  ASSUME Inv, FrameInv, NEW w \in Workers, NEW batch \in Batches, Push(w, batch)
  PROVE  FrameInv'
<1>0. /\ accepted \in 0 .. MaxItems /\ accepted \in Nat /\ accepted < MaxItems
      /\ queue \in [Workers -> Seq(Seq(Frame))]
      /\ Apart /\ Known /\ Covered /\ ItemsDistinct /\ QueueApart /\ EmptyInv
  BY WriterAssumption DEF Inv, TypeOK, QueueTypes, FrameInv, Push
<1>1. PICK s \in Seq(Frame) : s = toItems(batch)
  BY <1>0, ItemType
<1>2. /\ accepted' = accepted + 1
      /\ queue' = [queue EXCEPT ![w] = Append(queue[w], s)]
      /\ offered' = offered \cup {f \in FramesOf(s) : Sendable(f)}
      /\ UNCHANGED <<hand, sent, closing, ingested, failed, pc, writer>>
  BY <1>1 DEF Push, workVars, streamVars, resultVars
<1>3. /\ \A i \in DOMAIN s : s[i].item = accepted + 1 /\ s[i].index = i
  BY <1>1 DEF toItems
<1>4. Distinct(s)
  BY <1>3 DEF Distinct
<1>5. \A f \in FramesOf(s) : f.item = accepted + 1
  BY <1>3 DEF FramesOf
<1>6. \A f \in FramesOf(s) : f \notin Placed
  BY <1>0, <1>5 DEF Known
<1>7. /\ \A f : f \in Waiting' <=> f \in Waiting \/ f \in FramesOf(s)
      /\ \A v \in Workers : \A i \in DOMAIN queue'[v] : Distinct(queue'[v][i])
      /\ QueueApart'
  <2>1. \A f \in FramesOf(s) : f \notin Waiting
    BY <1>6 DEF Placed
  <2>2. \A v \in Workers : \A i \in DOMAIN queue[v] : Distinct(queue[v][i])
    BY <1>0 DEF ItemsDistinct
  <2> QED
    BY <1>0, <1>2, <1>4, <2>1, <2>2, QueuePush
<1>8. /\ \A f : /\ f \in InHand' <=> f \in InHand
                /\ f \in InStream' <=> f \in InStream
                /\ f \in InClosing' <=> f \in InClosing
      /\ HandsApart' /\ StreamsApart' /\ ClosingApart' /\ \A v \in Workers : Distinct(hand'[v])
  BY <1>2, PlaceStays
<1>9. \A f : f \in Placed' <=> f \in Placed \/ f \in FramesOf(s)
  BY <1>2, <1>7, <1>8 DEF Placed
<1>10. Apart'
  <2> SUFFICES ASSUME NEW f \in Placed' PROVE AtOne(f)'
    BY DEF Apart
  <2>1. CASE f \in FramesOf(s)
    BY <1>2, <1>6, <1>7, <1>8, <2>1 DEF AtOne, Placed
  <2>2. CASE f \notin FramesOf(s)
    <3>1. AtOne(f)
      BY <1>0, <1>9, <2>2 DEF Apart
    <3> QED
      BY <1>2, <1>7, <1>8, <2>2, <3>1 DEF AtOne
  <2> QED
    BY <2>1, <2>2
<1>11. Known'
  <2> SUFFICES ASSUME NEW f \in Placed' PROVE f.item <= accepted'
    BY DEF Known
  <2>1. CASE f \in FramesOf(s)
    BY <1>0, <1>2, <1>5, <2>1
  <2>2. CASE f \in Placed
    <3>1. f.item <= accepted
      BY <1>0, <2>2 DEF Known
    <3>2. f.item \in Nat
      <4>1. f \in Frame
        BY <2>2, PlacedType
      <4>2. f.item \in Items
        BY <4>1 DEF Frame
      <4> QED
        BY <4>2, WriterAssumption DEF Items
    <3> QED
      BY <1>0, <1>2, <3>1, <3>2
  <2> QED
    BY <1>9, <2>1, <2>2
<1>12. Covered'
  <2>1. \A f \in offered' : Sendable(f) /\ f \in Placed'
    BY <1>0, <1>2, <1>9 DEF Covered
  <2> QED
    BY <2>1 DEF Covered, Sendable
<1>13. EmptyInv'
  BY <1>0, <1>2 DEF EmptyInv
<1>14. ItemsDistinct'
  BY <1>7, <1>8, DistinctAfter
<1> QED
  BY <1>7, <1>8, <1>10, <1>11, <1>12, <1>13, <1>14 DEF FrameInv

\* A worker takes an item off its queue into its empty hands.
LEMMA FrameTake ==
  ASSUME Inv, FrameInv, NEW w \in Workers, WorkerTake(w)
  PROVE  FrameInv'
<1>0. /\ queue \in [Workers -> Seq(Seq(Frame))] /\ hand \in [Workers -> Seq(Frame)]
      /\ pc \in [Workers -> {"wait", "acquire", "open", "age", "frame", "exited"}]
      /\ Apart /\ Known /\ Covered /\ ItemsDistinct /\ QueueApart /\ HandsApart /\ EmptyInv
  BY DEF Inv, TypeOK, QueueTypes, WorkTypes, FrameInv
<1>1. /\ pc[w] = "wait" /\ queue[w] # <<>>
      /\ hand' = [hand EXCEPT ![w] = Head(queue[w])]
      /\ queue' = [queue EXCEPT ![w] = Tail(queue[w])]
      /\ pc' = [pc EXCEPT ![w] = IF writer[w] THEN "age" ELSE "acquire"]
      /\ UNCHANGED <<accepted, offered, sent, closing, ingested, failed, writer>>
  BY DEF WorkerTake, streamVars, resultVars
<1>2. PICK s : s = Head(queue[w])
  OBVIOUS
<1>3. hand[w] = <<>> /\ FramesOf(hand[w]) = {}
  BY <1>0, <1>1, FramesOfEmpty DEF EmptyInv
<1>4. /\ \A f : f \in Waiting' <=> f \in Waiting /\ f \notin FramesOf(s)
      /\ \A f \in FramesOf(s) : f \in Waiting
      /\ s \in Seq(Frame) /\ Distinct(s)
      /\ \A v \in Workers : \A i \in DOMAIN queue'[v] : Distinct(queue'[v][i])
      /\ QueueApart'
  <2>1. \A v \in Workers : \A i \in DOMAIN queue[v] : Distinct(queue[v][i])
    BY <1>0 DEF ItemsDistinct
  <2> QED
    BY <1>0, <1>1, <1>2, <2>1, QueuePop
<1>5. \A f \in FramesOf(s) : f \notin InHand
  BY <1>0, <1>4 DEF Apart, AtOne, Placed
<1>6. (\A f : f \in InHand' <=> f \in InHand \/ f \in FramesOf(s)) /\ HandsApart'
  BY <1>0, <1>1, <1>2, <1>3, <1>5, HandMoves
<1>7. /\ \A f : f \in InStream' <=> f \in InStream
      /\ \A f : f \in InClosing' <=> f \in InClosing
      /\ StreamsApart' /\ ClosingApart'
  BY <1>1, PlaceStays
<1>8. \A v \in Workers : Distinct(hand'[v])
  <2>1. hand'[w] = s /\ \A v \in Workers \ {w} : hand'[v] = hand[v]
    BY <1>0, <1>1, <1>2
  <2> QED
    BY <1>0, <1>4, <2>1 DEF ItemsDistinct
<1>9. ASSUME NEW f \in Placed' PROVE f \in Placed /\ AtOne(f)'
  <2>1. f \in Placed
    BY <1>1, <1>4, <1>6, <1>7, <1>9 DEF Placed
  <2>2. AtOne(f)
    BY <1>0, <2>1 DEF Apart
  <2>3. AtOne(f)'
    BY <1>1, <1>4, <1>6, <1>7, <2>2 DEF AtOne
  <2> QED
    BY <2>1, <2>3
<1>10. \A f \in Placed : f \in Placed'
  BY <1>1, <1>4, <1>6, <1>7 DEF Placed
<1>11. Apart' /\ Known' /\ Covered'
  BY <1>0, <1>1, <1>9, <1>10, MovesKeep
<1>12. EmptyInv'
  <2>1. pc'[w] \notin {"wait", "exited"}
    BY <1>0, <1>1
  <2>2. \A v \in Workers \ {w} : pc'[v] = pc[v] /\ hand'[v] = hand[v]
    BY <1>0, <1>1
  <2> QED
    BY <1>0, <1>1, <2>1, <2>2 DEF EmptyInv
<1>13. ItemsDistinct'
  BY <1>4, <1>8, DistinctAfter
<1> QED
  BY <1>4, <1>6, <1>7, <1>11, <1>12, <1>13 DEF FrameInv

\* A frame that is never sent, or that goes out on the open stream, leaves the worker's hands.
LEMMA FrameSent ==
  ASSUME Inv, FrameInv, NEW w \in Workers, SkipFrame(w) \/ WriteFrame(w)
  PROVE  FrameInv'
<1>0. /\ hand \in [Workers -> Seq(Frame)] /\ sent \in [Workers -> Seq(Frame)]
      /\ pc[w] = "frame" /\ hand[w] # <<>> /\ writer[w]
      /\ Apart /\ Known /\ Covered /\ ItemsDistinct /\ HandsApart /\ StreamsApart /\ EmptyInv
  BY DEF Inv, TypeOK, WorkTypes, StreamTypes, FrameInv, SkipFrame, WriteFrame, HandleInv
<1>1. PICK s \in Seq(Frame) : s = hand[w] /\ s # <<>> /\ Distinct(s)
  BY <1>0 DEF ItemsDistinct
<1>2. PICK h \in Frame : h = Head(s)
  BY <1>1
<1>3. /\ FramesOf(Tail(s)) = FramesOf(s) \ {h} /\ h \in FramesOf(s) /\ Distinct(Tail(s))
      /\ h \in InHand
  BY <1>0, <1>1, <1>2, FramesOfTail, PlaceMembers
<1>4. /\ hand' = [hand EXCEPT ![w] = Tail(s)]
      /\ UNCHANGED <<accepted, offered, queue, closing, ingested, failed, pc, writer>>
  BY <1>1 DEF SkipFrame, WriteFrame, queueVars, resultVars, streamVars
<1>5. (\A f : f \in InHand' <=> f \in InHand /\ f # h) /\ HandsApart'
  <2>1. /\ \A f : f \in InHand' <=> (f \in InHand /\ f \notin FramesOf(s)) \/ f \in FramesOf(Tail(s))
        /\ HandsApart'
    BY <1>0, <1>1, <1>3, <1>4, HandMoves
  <2>2. \A f \in FramesOf(s) : f \in InHand
    BY <1>0, <1>1, PlaceMembers
  <2> QED
    BY <1>3, <2>1, <2>2
<1>6. /\ \A f : f \in Waiting' <=> f \in Waiting
      /\ \A f : f \in InClosing' <=> f \in InClosing
      /\ QueueApart' /\ ClosingApart'
      /\ \A v \in Workers : \A i \in DOMAIN queue'[v] : Distinct(queue'[v][i])
  BY <1>4, PlaceStays
<1>7. hand'[w] = Tail(s) /\ \A v \in Workers \ {w} : hand'[v] = hand[v]
  BY <1>0, <1>4
<1>8. ItemsDistinct'
  <2>1. \A v \in Workers : Distinct(hand'[v])
    BY <1>0, <1>3, <1>7 DEF ItemsDistinct
  <2> QED
    BY <1>6, <2>1, DistinctAfter
<1>9. AtOne(h)
  BY <1>0, <1>3 DEF Apart, Placed
<1>10. CASE SkipFrame(w)
  <2>1. sent' = sent /\ ~Sendable(h)
    BY <1>1, <1>2, <1>10 DEF SkipFrame, streamVars
  <2>2. (\A f : f \in InStream' <=> f \in InStream) /\ StreamsApart'
    BY <2>1, PlaceStays
  <2>3. ASSUME NEW f \in Placed' PROVE f \in Placed /\ AtOne(f)'
    <3>1. f \in Placed
      BY <1>4, <1>5, <1>6, <2>2, <2>3 DEF Placed
    <3>2. AtOne(f)
      BY <1>0, <3>1 DEF Apart
    <3> QED
      BY <1>4, <1>5, <1>6, <2>2, <3>1, <3>2 DEF AtOne
  <2>4. \A f \in Placed : Sendable(f) => f \in Placed'
    <3> SUFFICES ASSUME NEW f \in Placed, Sendable(f) PROVE f \in Placed'
      OBVIOUS
    <3>1. f # h
      BY <2>1
    <3> QED
      BY <1>4, <1>5, <1>6, <2>2, <3>1 DEF Placed
  <2>5. Apart' /\ Known' /\ Covered'
    BY <1>0, <1>4, <2>3, <2>4, MovesKeep
  <2>6. EmptyInv'
    BY <1>0, <1>4, <1>7, <2>1 DEF EmptyInv
  <2> QED
    BY <1>5, <1>6, <1>8, <2>2, <2>5, <2>6 DEF FrameInv
<1>11. CASE WriteFrame(w)
  <2>1. sent' = [sent EXCEPT ![w] = Append(sent[w], h)]
    BY <1>1, <1>2, <1>11 DEF WriteFrame
  <2>2. FramesOf(Append(sent[w], h)) = FramesOf(sent[w]) \cup {h}
    BY <1>0, FramesOfAppend
  <2>3. h \notin InStream
    BY <1>3, <1>9 DEF AtOne
  <2>4. (\A f : f \in InStream' <=> f \in InStream \/ f = h) /\ StreamsApart'
    <3>1. /\ \A f : f \in InStream' <=>
                      \/ f \in InStream /\ f \notin FramesOf(sent[w])
                      \/ f \in FramesOf(Append(sent[w], h))
          /\ StreamsApart'
      BY <1>0, <2>1, <2>2, <2>3, StreamMoves
    <3>2. \A f \in FramesOf(sent[w]) : f \in InStream
      BY PlaceMembers
    <3> QED
      BY <2>2, <3>1, <3>2
  <2>5. ASSUME NEW f \in Placed' PROVE f \in Placed /\ AtOne(f)'
    <3>1. f \in Placed
      BY <1>3, <1>4, <1>5, <1>6, <2>4, <2>5 DEF Placed
    <3>2. AtOne(f)
      BY <1>0, <3>1 DEF Apart
    <3> QED
      BY <1>3, <1>4, <1>5, <1>6, <2>4, <3>1, <3>2 DEF AtOne
  <2>6. \A f \in Placed : f \in Placed'
    BY <1>4, <1>5, <1>6, <2>4 DEF Placed
  <2>7. Apart' /\ Known' /\ Covered'
    BY <1>0, <1>4, <2>5, <2>6, MovesKeep
  <2>8. EmptyInv'
    <3>1. \A v \in Workers \ {w} : sent'[v] = sent[v]
      BY <1>0, <2>1
    <3> QED
      BY <1>0, <1>4, <1>7, <3>1 DEF EmptyInv
  <2> QED
    BY <1>5, <1>6, <1>8, <2>4, <2>7, <2>8 DEF FrameInv
<1> QED
  BY <1>10, <1>11

\* closeStream() moves the frames of the stream, and one that was just written, to the
\* closing ones.
LEMMA CloseMoves ==
  ASSUME Inv, FrameInv, NEW w \in Workers, writer[w], NEW s \in Seq(Frame), CloseStream(w, s),
         \A f \in FramesOf(sent[w]) : f \in FramesOf(s),
         \A f \in FramesOf(s) : f \in FramesOf(sent[w]) \/ f \in InHand
  PROVE  /\ \A f : f \in InStream' <=> f \in InStream /\ f \notin FramesOf(sent[w])
         /\ \A f : f \in InClosing' <=> f \in InClosing \/ f \in FramesOf(s)
         /\ \A f \in FramesOf(sent[w]) : f \in InStream
         /\ StreamsApart' /\ ClosingApart'
         /\ sent'[w] = <<>> /\ ~writer'[w]
         /\ \A v \in Workers \ {w} : sent'[v] = sent[v] /\ writer'[v] = writer[v]
<1>0. /\ sent \in [Workers -> Seq(Frame)] /\ closing \in Seq(ClosingStream)
      /\ handle \in [Workers -> Connections \cup {NoConnection}]
      /\ writer \in [Workers -> BOOLEAN]
      /\ Apart /\ StreamsApart /\ ClosingApart /\ HandleInv
  BY DEF Inv, TypeOK, StreamTypes, PoolTypes, FrameInv
<1>1. PICK t \in ClosingStream : t = [connection |-> handle[w], frames |-> s]
  <2>1. handle[w] \in Connections
    BY <1>0 DEF HandleInv
  <2> QED
    BY <2>1 DEF ClosingStream
<1>2. closing' = Append(closing, t) /\ sent' = [sent EXCEPT ![w] = <<>>] /\ t.frames = s
  BY <1>1 DEF CloseStream
<1>3. \A f \in FramesOf(sent[w]) : f \in InStream
  BY PlaceMembers
<1>4. \A f \in FramesOf(s) : f \notin InClosing
  BY <1>0, <1>3 DEF Apart, AtOne, Placed
<1>5. (\A f : f \in InClosing' <=> f \in InClosing \/ f \in FramesOf(s)) /\ ClosingApart'
  BY <1>0, <1>2, <1>4, ClosingPush
<1>6. (\A f : f \in InStream' <=> f \in InStream /\ f \notin FramesOf(sent[w])) /\ StreamsApart'
  BY <1>0, <1>2, FramesOfEmpty, StreamMoves
<1>7. sent'[w] = <<>> /\ \A v \in Workers \ {w} : sent'[v] = sent[v]
  BY <1>0, <1>2
<1>8. ~writer'[w] /\ \A v \in Workers \ {w} : writer'[v] = writer[v]
  BY <1>0 DEF CloseStream
<1> QED
  BY <1>3, <1>5, <1>6, <1>7, <1>8

\* A step that closes a stream and moves no other frame.
LEMMA FrameClose ==
  ASSUME Inv, FrameInv, NEW w \in Workers, writer[w], CloseStream(w, sent[w]),
         UNCHANGED <<accepted, offered, queue, hand, ingested, failed>>,
         \A v \in Workers : pc'[v] \in {"wait", "exited"} => hand[v] = <<>>
  PROVE  FrameInv'
<1>0. sent[w] \in Seq(Frame) /\ Apart /\ Known /\ Covered /\ EmptyInv
  BY DEF Inv, TypeOK, StreamTypes, FrameInv
<1>1. /\ \A f : f \in InStream' <=> f \in InStream /\ f \notin FramesOf(sent[w])
      /\ \A f : f \in InClosing' <=> f \in InClosing \/ f \in FramesOf(sent[w])
      /\ \A f \in FramesOf(sent[w]) : f \in InStream
      /\ StreamsApart' /\ ClosingApart'
      /\ sent'[w] = <<>> /\ ~writer'[w]
      /\ \A v \in Workers \ {w} : sent'[v] = sent[v] /\ writer'[v] = writer[v]
  BY <1>0, CloseMoves
<1>2. /\ \A f : f \in Waiting' <=> f \in Waiting
      /\ \A f : f \in InHand' <=> f \in InHand
      /\ QueueApart' /\ HandsApart' /\ ItemsDistinct'
  BY PlaceStays, DistinctAfter
<1>3. ASSUME NEW f \in Placed' PROVE f \in Placed /\ AtOne(f)'
  <2>1. f \in Placed
    BY <1>1, <1>2, <1>3 DEF Placed
  <2>2. AtOne(f)
    BY <1>0, <2>1 DEF Apart
  <2> QED
    BY <1>1, <1>2, <2>1, <2>2 DEF AtOne
<1>4. \A f \in Placed : f \in Placed'
  BY <1>1, <1>2 DEF Placed
<1>5. Apart' /\ Known' /\ Covered'
  BY <1>0, <1>3, <1>4, MovesKeep
<1>6. EmptyInv'
  BY <1>0, <1>1 DEF EmptyInv
<1> QED
  BY <1>1, <1>2, <1>5, <1>6 DEF FrameInv

\* The last frame a stream takes goes from the worker's hands to the closing ones.
LEMMA FrameWriteLast ==
  ASSUME Inv, FrameInv, NEW w \in Workers, WriteLastFrame(w)
  PROVE  FrameInv'
<1>0. /\ hand \in [Workers -> Seq(Frame)] /\ sent \in [Workers -> Seq(Frame)]
      /\ pc \in [Workers -> {"wait", "acquire", "open", "age", "frame", "exited"}]
      /\ hand[w] # <<>> /\ writer[w]
      /\ Apart /\ Known /\ Covered /\ ItemsDistinct /\ HandsApart /\ EmptyInv
  BY DEF Inv, TypeOK, WorkTypes, StreamTypes, FrameInv, WriteLastFrame, HandleInv
<1>1. PICK s \in Seq(Frame) : s = hand[w] /\ s # <<>> /\ Distinct(s)
  BY <1>0 DEF ItemsDistinct
<1>2. PICK h \in Frame : h = Head(s)
  BY <1>1
<1>3. /\ FramesOf(Tail(s)) = FramesOf(s) \ {h} /\ h \in FramesOf(s) /\ Distinct(Tail(s))
      /\ h \in InHand
  BY <1>0, <1>1, <1>2, FramesOfTail, PlaceMembers
<1>4. PICK t \in Seq(Frame) : t = Append(sent[w], h)
  <2>1. sent[w] \in Seq(Frame)
    BY <1>0
  <2>2. Append(sent[w], h) \in Seq(Frame)
    BY <2>1
  <2> QED
    BY <2>2
<1>5. FramesOf(t) = FramesOf(sent[w]) \cup {h}
  BY <1>0, <1>4, FramesOfAppend
<1>6. /\ hand' = [hand EXCEPT ![w] = Tail(s)] /\ pc' = [pc EXCEPT ![w] = "acquire"]
      /\ CloseStream(w, t)
      /\ UNCHANGED <<accepted, offered, queue, ingested, failed>>
  BY <1>1, <1>2, <1>4 DEF WriteLastFrame, RotateStream, queueVars, resultVars
<1>7. (\A f : f \in InHand' <=> f \in InHand /\ f # h) /\ HandsApart'
  <2>1. /\ \A f : f \in InHand' <=> (f \in InHand /\ f \notin FramesOf(s)) \/ f \in FramesOf(Tail(s))
        /\ HandsApart'
    BY <1>0, <1>1, <1>3, <1>6, HandMoves
  <2>2. \A f \in FramesOf(s) : f \in InHand
    BY <1>0, <1>1, PlaceMembers
  <2> QED
    BY <1>3, <2>1, <2>2
<1>8. /\ \A f : f \in InStream' <=> f \in InStream /\ f \notin FramesOf(sent[w])
      /\ \A f : f \in InClosing' <=> f \in InClosing \/ f \in FramesOf(t)
      /\ \A f \in FramesOf(sent[w]) : f \in InStream
      /\ StreamsApart' /\ ClosingApart'
      /\ sent'[w] = <<>> /\ ~writer'[w]
      /\ \A v \in Workers \ {w} : sent'[v] = sent[v] /\ writer'[v] = writer[v]
  BY <1>0, <1>3, <1>5, <1>6, CloseMoves
<1>9. /\ \A f : f \in Waiting' <=> f \in Waiting
      /\ QueueApart'
      /\ \A v \in Workers : \A i \in DOMAIN queue'[v] : Distinct(queue'[v][i])
  BY <1>6, PlaceStays
<1>10. /\ hand'[w] = Tail(s) /\ pc'[w] = "acquire"
       /\ \A v \in Workers \ {w} : hand'[v] = hand[v] /\ pc'[v] = pc[v]
  BY <1>0, <1>6
<1>11. ItemsDistinct'
  <2>1. \A v \in Workers : Distinct(hand'[v])
    BY <1>0, <1>3, <1>10 DEF ItemsDistinct
  <2> QED
    BY <1>9, <2>1, DistinctAfter
<1>12. ASSUME NEW f \in Placed' PROVE f \in Placed /\ AtOne(f)'
  <2>1. f \in Placed
    BY <1>3, <1>5, <1>6, <1>7, <1>8, <1>9, <1>12 DEF Placed
  <2>2. AtOne(f)
    BY <1>0, <2>1 DEF Apart
  <2> QED
    BY <1>3, <1>5, <1>6, <1>7, <1>8, <1>9, <2>1, <2>2 DEF AtOne
<1>13. \A f \in Placed : f \in Placed'
  BY <1>5, <1>6, <1>7, <1>8, <1>9 DEF Placed
<1>14. Apart' /\ Known' /\ Covered'
  BY <1>0, <1>6, <1>12, <1>13, MovesKeep
<1>15. EmptyInv'
  BY <1>0, <1>8, <1>10 DEF EmptyInv
<1> QED
  BY <1>7, <1>8, <1>9, <1>11, <1>14, <1>15 DEF FrameInv

\* The item a worker gives up, with or without its stream, is counted as failed.
LEMMA FrameAbandon ==
  ASSUME Inv, FrameInv, NEW w \in Workers, OpenFails(w) \/ WriteFails(w)
  PROVE  FrameInv'
<1>0. /\ hand \in [Workers -> Seq(Frame)] /\ sent \in [Workers -> Seq(Frame)]
      /\ pc \in [Workers -> {"wait", "acquire", "open", "age", "frame", "exited"}]
      /\ Apart /\ Known /\ Covered /\ ItemsDistinct /\ HandsApart /\ EmptyInv
  BY DEF Inv, TypeOK, WorkTypes, StreamTypes, FrameInv
<1>1. /\ hand' = [hand EXCEPT ![w] = <<>>] /\ pc' = [pc EXCEPT ![w] = "wait"]
      /\ failed' = failed \cup {f \in FramesOf(hand[w]) : Sendable(f)}
      /\ UNCHANGED <<accepted, offered, queue, ingested>>
  BY DEF OpenFails, WriteFails, Abandon, queueVars
<1>2. (\A f : f \in InHand' <=> f \in InHand /\ f \notin FramesOf(hand[w])) /\ HandsApart'
  BY <1>0, <1>1, FramesOfEmpty, HandMoves
<1>3. \A f \in FramesOf(hand[w]) : f \in InHand
  BY PlaceMembers
<1>4. \A f : f \in failed' <=> f \in failed \/ (f \in FramesOf(hand[w]) /\ Sendable(f))
  BY <1>1
<1>5. /\ \A f : f \in Waiting' <=> f \in Waiting
      /\ QueueApart'
      /\ \A v \in Workers : \A i \in DOMAIN queue'[v] : Distinct(queue'[v][i])
  BY <1>1, PlaceStays
<1>6. /\ hand'[w] = <<>> /\ \A v \in Workers \ {w} : hand'[v] = hand[v] /\ pc'[v] = pc[v]
  BY <1>0, <1>1
<1>7. ItemsDistinct'
  <2>1. \A v \in Workers : Distinct(hand'[v])
    BY <1>0, <1>6, FramesOfEmpty DEF ItemsDistinct
  <2> QED
    BY <1>5, <2>1, DistinctAfter
\* The frames of the stream, if it is closed too, move to the closing ones.
<1>8. PICK F :
        /\ \A f : f \in InStream' <=> f \in InStream /\ f \notin F
        /\ \A f : f \in InClosing' <=> f \in InClosing \/ f \in F
        /\ \A f \in F : f \in InStream
        /\ StreamsApart' /\ ClosingApart'
        /\ \A v \in Workers : (~writer[v] => sent[v] = <<>>) => (~writer'[v] => sent'[v] = <<>>)
  <2>1. CASE OpenFails(w)
    <3>1. UNCHANGED <<sent, closing, writer>>
      BY <2>1 DEF OpenFails
    <3>2. /\ \A f : f \in InStream' <=> f \in InStream
          /\ \A f : f \in InClosing' <=> f \in InClosing
          /\ StreamsApart' /\ ClosingApart'
      BY <3>1, PlaceStays
    <3>3. \A f : f \notin {}
      OBVIOUS
    <3>4. \A v \in Workers : (~writer[v] => sent[v] = <<>>) => (~writer'[v] => sent'[v] = <<>>)
      BY <3>1
    <3>5. \A f \in {} : f \in InStream
      OBVIOUS
    <3> QED
      BY <3>2, <3>3, <3>4, <3>5
  <2>2. CASE WriteFails(w)
    <3>1. writer[w] /\ CloseStream(w, sent[w]) /\ sent[w] \in Seq(Frame)
      BY <1>0, <2>2 DEF WriteFails, Inv, HandleInv
    <3>2. PICK F : F = FramesOf(sent[w])
      OBVIOUS
    <3>3. /\ \A f : f \in InStream' <=> f \in InStream /\ f \notin F
          /\ \A f : f \in InClosing' <=> f \in InClosing \/ f \in F
          /\ \A f \in F : f \in InStream
          /\ StreamsApart' /\ ClosingApart'
          /\ sent'[w] = <<>>
          /\ \A v \in Workers \ {w} : sent'[v] = sent[v] /\ writer'[v] = writer[v]
      BY <3>1, <3>2, CloseMoves
    <3>4. \A v \in Workers : (~writer[v] => sent[v] = <<>>) => (~writer'[v] => sent'[v] = <<>>)
      BY <3>3
    <3> QED
      BY <3>3, <3>4
  <2> QED
    BY <2>1, <2>2
<1>9. ASSUME NEW f \in Placed' PROVE f \in Placed /\ AtOne(f)'
  <2>1. f \in Placed
    BY <1>1, <1>2, <1>3, <1>4, <1>5, <1>8, <1>9 DEF Placed
  <2>2. AtOne(f)
    BY <1>0, <2>1 DEF Apart
  <2> QED
    BY <1>1, <1>2, <1>3, <1>4, <1>5, <1>8, <2>1, <2>2 DEF AtOne
<1>10. \A f \in Placed : Sendable(f) => f \in Placed'
  BY <1>1, <1>2, <1>4, <1>5, <1>8 DEF Placed
<1>11. Apart' /\ Known' /\ Covered'
  BY <1>0, <1>1, <1>9, <1>10, MovesKeep
<1>12. EmptyInv'
  BY <1>0, <1>6, <1>8 DEF EmptyInv
<1> QED
  BY <1>2, <1>5, <1>7, <1>8, <1>11, <1>12 DEF FrameInv

\* Finish() settles the frames of the stream that was handed over first.
LEMMA FrameFinish ==
  ASSUME Inv, FrameInv, CloseStep
  PROVE  FrameInv'
<1>0. closing \in Seq(ClosingStream) /\ Apart /\ Known /\ Covered /\ ClosingApart /\ EmptyInv
  BY DEF Inv, TypeOK, PoolTypes, FrameInv
<1>1. /\ closing # <<>> /\ closing' = Tail(closing)
      /\ UNCHANGED <<accepted, offered, queue, hand, sent, pc, writer>>
      /\ \/ ingested' = ingested \cup FramesOf(Head(closing).frames) /\ failed' = failed
         \/ failed' = failed \cup FramesOf(Head(closing).frames) /\ ingested' = ingested
  BY DEF CloseStep, FinishStream, FinishFails, queueVars, workVars, streamVars
<1>2. PICK F : F = FramesOf(Head(closing).frames)
  OBVIOUS
<1>3. /\ \A f : f \in InClosing' <=> f \in InClosing /\ f \notin F
      /\ \A f \in F : f \in InClosing
      /\ ClosingApart'
  BY <1>0, <1>1, <1>2, ClosingPop
<1>4. \/ (\A f : f \in ingested' <=> f \in ingested \/ f \in F) /\ failed' = failed
      \/ (\A f : f \in failed' <=> f \in failed \/ f \in F) /\ ingested' = ingested
  BY <1>1, <1>2
<1>5. /\ \A f : f \in Waiting' <=> f \in Waiting
      /\ \A f : f \in InHand' <=> f \in InHand
      /\ \A f : f \in InStream' <=> f \in InStream
      /\ QueueApart' /\ HandsApart' /\ StreamsApart' /\ ItemsDistinct'
  BY <1>1, PlaceStays, DistinctAfter
<1>6. ASSUME NEW f \in Placed' PROVE f \in Placed /\ AtOne(f)'
  <2>1. f \in Placed
    BY <1>3, <1>4, <1>5, <1>6 DEF Placed
  <2>2. AtOne(f)
    BY <1>0, <2>1 DEF Apart
  <2> QED
    BY <1>3, <1>4, <1>5, <2>1, <2>2 DEF AtOne
<1>7. \A f \in Placed : f \in Placed'
  BY <1>3, <1>4, <1>5 DEF Placed
<1>8. Apart' /\ Known' /\ Covered'
  BY <1>0, <1>1, <1>6, <1>7, MovesKeep
<1>9. EmptyInv'
  BY <1>0, <1>1 DEF EmptyInv
<1> QED
  BY <1>3, <1>5, <1>8, <1>9 DEF FrameInv

\* Initially no frame is anywhere.
LEMMA FrameInit == Init => FrameInv
<1> SUFFICES ASSUME Init PROVE FrameInv
  OBVIOUS
<1>1. /\ \A w \in Workers : queue[w] = <<>> /\ hand[w] = <<>> /\ sent[w] = <<>>
      /\ closing = <<>> /\ ingested = {} /\ failed = {} /\ offered = {}
  BY DEF Init
<1>2. /\ \A w \in Workers : DOMAIN queue[w] = {} /\ FramesOf(hand[w]) = {} /\ FramesOf(sent[w]) = {}
      /\ DOMAIN closing = {}
  BY <1>1, FramesOfEmpty
<1>3. \A f : f \notin Placed
  <2> TAKE f
  <2>1. f \notin Waiting /\ f \notin InHand /\ f \notin InStream /\ f \notin InClosing
    BY <1>2, PlaceMembers
  <2> QED
    BY <1>1, <2>1 DEF Placed
<1>4. Apart /\ Known /\ Covered
  BY <1>1, <1>3 DEF Apart, Known, Covered
<1>5. ItemsDistinct
  BY <1>1, <1>2, FramesOfEmpty DEF ItemsDistinct
<1>6. QueueApart /\ HandsApart /\ StreamsApart /\ ClosingApart
  BY <1>2 DEF QueueApart, HandsApart, StreamsApart, ClosingApart
<1>7. EmptyInv
  BY <1>1 DEF EmptyInv
<1> QED
  BY <1>4, <1>5, <1>6, <1>7 DEF FrameInv

\* Every step of a worker keeps the frames accounted for.
LEMMA FrameWorker ==
  ASSUME Inv, FrameInv, NEW w \in Workers, WorkerStep(w)
  PROVE  FrameInv'
<1>0. /\ pc \in [Workers -> {"wait", "acquire", "open", "age", "frame", "exited"}]
      /\ writer \in [Workers -> BOOLEAN] /\ resume \in [Workers -> {"age", "frame"}]
      /\ EmptyInv /\ HandleInv
  BY DEF Inv, TypeOK, WorkTypes, StreamTypes, FrameInv
<1>1. CASE WorkerTake(w)
  BY <1>1, FrameTake
<1>2. CASE SkipFrame(w) \/ WriteFrame(w)
  BY <1>2, FrameSent
<1>3. CASE WriteLastFrame(w)
  BY <1>3, FrameWriteLast
<1>4. CASE OpenFails(w) \/ WriteFails(w)
  BY <1>4, FrameAbandon
<1>5. CASE WorkerIdle(w)
  <2>1. /\ writer[w] /\ CloseStream(w, sent[w]) /\ pc' = pc
        /\ UNCHANGED <<accepted, offered, queue, hand, ingested, failed>>
    BY <1>5 DEF WorkerIdle, queueVars, workVars, resultVars
  <2>2. \A v \in Workers : pc'[v] \in {"wait", "exited"} => hand[v] = <<>>
    BY <1>0, <2>1 DEF EmptyInv
  <2> QED
    BY <2>1, <2>2, FrameClose
<1>6. CASE RotateByAge(w) \/ RotateByBytes(w)
  <2>1. /\ writer[w] /\ CloseStream(w, sent[w]) /\ pc' = [pc EXCEPT ![w] = "acquire"]
        /\ UNCHANGED <<accepted, offered, queue, hand, ingested, failed>>
    BY <1>0, <1>6 DEF RotateByAge, RotateByBytes, RotateStream, HandleInv, queueVars, resultVars
  <2>2. \A v \in Workers : pc'[v] \in {"wait", "exited"} => hand[v] = <<>>
    BY <1>0, <2>1 DEF EmptyInv
  <2> QED
    BY <2>1, <2>2, FrameClose
<1>7. CASE ItemDone(w)
  <2>1. /\ writer[w] /\ hand[w] = <<>> /\ pc' = [pc EXCEPT ![w] = "wait"]
        /\ UNCHANGED <<accepted, offered, queue, hand, ingested, failed>>
    BY <1>0, <1>7 DEF ItemDone, HandleInv, queueVars, resultVars
  <2>2. \A v \in Workers : pc'[v] \in {"wait", "exited"} => hand[v] = <<>>
    BY <1>0, <2>1 DEF EmptyInv
  <2>3. CASE CloseStream(w, sent[w])
    BY <2>1, <2>2, <2>3, FrameClose
  <2>4. CASE UNCHANGED <<streamVars, closing>>
    <3>1. UNCHANGED <<sent, writer, closing>>
      BY <2>4 DEF streamVars
    <3>2. EmptyInv'
      BY <1>0, <2>1, <2>2, <3>1 DEF EmptyInv
    <3> QED
      BY <2>1, <3>1, <3>2, FrameQuiet
  <2> QED
    BY <1>7, <2>3, <2>4 DEF ItemDone
<1>8. CASE WorkerExit(w) \/ Acquire(w) \/ StreamYoung(w)
  <2>1. /\ UNCHANGED <<accepted, offered, queue, hand, sent, closing, ingested, failed, writer>>
        /\ \A v \in Workers : pc'[v] \in {"wait", "exited"} => pc[v] \in {"wait", "exited"}
    BY <1>0, <1>8 DEF WorkerExit, Acquire, StreamYoung, queueVars, streamVars, resultVars
  <2>2. EmptyInv'
    BY <1>0, <2>1 DEF EmptyInv
  <2> QED
    BY <2>1, <2>2, FrameQuiet
<1>9. CASE OpenStream(w)
  <2>1. /\ UNCHANGED <<accepted, offered, queue, hand, sent, closing, ingested, failed>>
        /\ writer' = [writer EXCEPT ![w] = TRUE] /\ pc' = [pc EXCEPT ![w] = resume[w]]
    BY <1>9 DEF OpenStream, queueVars, resultVars
  <2>2. pc'[w] \in {"age", "frame"} /\ \A v \in Workers \ {w} : pc'[v] = pc[v]
    BY <1>0, <2>1
  <2>3. writer'[w] /\ \A v \in Workers \ {w} : writer'[v] = writer[v]
    BY <1>0, <2>1
  <2>4. EmptyInv'
    BY <1>0, <2>1, <2>2, <2>3 DEF EmptyInv
  <2> QED
    BY <2>1, <2>4, FrameQuiet
<1> QED
  BY <1>1, <1>2, <1>3, <1>4, <1>5, <1>6, <1>7, <1>8, <1>9 DEF WorkerStep, SendStep

\* Every step keeps the frames accounted for.
LEMMA FrameStep == Inv /\ FrameInv /\ [Next]_vars => FrameInv'
<1> SUFFICES ASSUME Inv, FrameInv, [Next]_vars PROVE FrameInv'
  OBVIOUS
<1>0. EmptyInv
  BY DEF FrameInv
<1>1. CASE \E w \in Workers : \E batch \in Batches : Push(w, batch)
  BY <1>1, FramePush
<1>2. CASE \E w \in Workers : WorkerStep(w)
  BY <1>2, FrameWorker
<1>3. CASE CloseStep
  BY <1>3, FrameFinish
<1>4. CASE \E w \in Workers : DoStop(w)
  <2>1. PICK w \in Workers : DoStop(w)
    BY <1>4
  <2>2. /\ writer[w] /\ CloseStream(w, sent[w]) /\ pc' = pc
        /\ UNCHANGED <<accepted, offered, queue, hand, ingested, failed>>
    BY <2>1 DEF DoStop, queueVars, workVars, resultVars
  <2>3. \A v \in Workers : pc'[v] \in {"wait", "exited"} => hand[v] = <<>>
    BY <1>0, <2>2 DEF EmptyInv
  <2> QED
    BY <2>2, <2>3, FrameClose
<1>5. CASE \/ Start \/ StartFails \/ StopBegin \/ StopEnd \/ ForceStop \/ UNCHANGED vars
           \/ \E w \in Workers : StreamAges(w)
  <2>1. UNCHANGED <<accepted, offered, queue, hand, sent, closing, ingested, failed, pc, writer>>
    BY <1>5 DEF Start, StartFails, StopBegin, StopEnd, ForceStop, StreamAges, vars, queueVars,
                workVars, streamVars, resultVars
  <2>2. EmptyInv'
    BY <1>0, <2>1 DEF EmptyInv
  <2> QED
    BY <2>1, <2>2, FrameQuiet
<1> QED
  BY <1>1, <1>2, <1>3, <1>4, <1>5 DEF Next, StopStep, Terminated

\* Where the frames are, throughout every behaviour.
LEMMA FrameInvariant == Spec => [](Inv /\ FrameInv)
BY InvInit, InvStep, FrameInit, FrameStep, PTL DEF Spec

\* Whatever fails on the way, each sendable frame of an accepted batch is in exactly one
\* place: none is sent twice, and none is gone without being ingested or counted as failed.
THEOREM FramesAreAccounted == Spec => []FramesAccounted
<1>1. FrameInv => FramesAccounted
  <2> SUFFICES ASSUME FrameInv, NEW f \in offered
               PROVE  Cardinality({p \in 1 .. 6 :
                        f \in <<Waiting, InHand, InStream, InClosing, ingested, failed>>[p]}) = 1
    BY DEF FramesAccounted
  <2>1. f \in Placed /\ AtOne(f)
    BY DEF FrameInv, Covered, Apart
  <2>2. ASSUME NEW x \in 1 .. 6, \A p \in 1 .. 6 :
               f \in <<Waiting, InHand, InStream, InClosing, ingested, failed>>[p] <=> p = x
        PROVE  Cardinality({p \in 1 .. 6 :
                 f \in <<Waiting, InHand, InStream, InClosing, ingested, failed>>[p]}) = 1
    <3>1. {p \in 1 .. 6 :
             f \in <<Waiting, InHand, InStream, InClosing, ingested, failed>>[p]} = {x}
      BY <2>2
    <3> QED
      BY <3>1, FS_Singleton
  <2>3. \E x \in 1 .. 6 : \A p \in 1 .. 6 :
          f \in <<Waiting, InHand, InStream, InClosing, ingested, failed>>[p] <=> p = x
    <3>1. \A p \in 1 .. 6 : p = 1 \/ p = 2 \/ p = 3 \/ p = 4 \/ p = 5 \/ p = 6
      OBVIOUS
    <3>2. CASE f \in Waiting
      BY <2>1, <3>1, <3>2 DEF AtOne
    <3>3. CASE f \in InHand
      BY <2>1, <3>1, <3>3 DEF AtOne
    <3>4. CASE f \in InStream
      BY <2>1, <3>1, <3>4 DEF AtOne
    <3>5. CASE f \in InClosing
      BY <2>1, <3>1, <3>5 DEF AtOne
    <3>6. CASE f \in ingested
      BY <2>1, <3>1, <3>6 DEF AtOne
    <3>7. CASE f \in failed
      BY <2>1, <3>1, <3>7 DEF AtOne
    <3> QED
      BY <2>1, <3>2, <3>3, <3>4, <3>5, <3>6, <3>7 DEF Placed
  <2> QED
    BY <2>2, <2>3
<1> QED
  BY <1>1, FrameInvariant, PTL

-----------------------------------------------------------------------------
(* What stop() leaves behind. *)

\* A worker leaves its loop when it is forced to, or with an empty channel after stop().
ExitInv ==
  \A w \in Workers :
    pc[w] = "exited" => forceQuit \/ (phase \in {"stopping", "stopped"} /\ queue[w] = <<>>)

\* stop() returns after the workers, with every stream closed and settled.
DoneInv == phase = "stopped" => AllExited /\ AllClosed /\ closing = <<>>

StopInv == ExitInv /\ DoneInv

\* Initially no worker has left.
LEMMA StopInit == Init => StopInv
BY DEF Init, StopInv, ExitInv, DoneInv

\* Every step keeps stop()'s bookkeeping.
LEMMA StopInvStep == Inv /\ StopInv /\ [Next]_vars => StopInv'
<1> SUFFICES ASSUME Inv, StopInv, [Next]_vars PROVE StopInv'
  OBVIOUS
<1>0. /\ pc \in [Workers -> {"wait", "acquire", "open", "age", "frame", "exited"}]
      /\ writer \in [Workers -> BOOLEAN] /\ resume \in [Workers -> {"age", "frame"}]
      /\ queue \in [Workers -> Seq(Seq(Frame))]
      /\ phase \in {"new", "running", "failed", "stopping", "stopped"}
      /\ ExitInv /\ DoneInv /\ HandleInv
  BY DEF Inv, TypeOK, LifeTypes, QueueTypes, WorkTypes, StreamTypes, StopInv
\* A step outside stop() leaves nobody's exit undone; none is taken once stop() has returned.
<1>1. ASSUME UNCHANGED <<phase, forceQuit>>, phase # "stopped",
             \A w \in Workers : pc'[w] = "exited" =>
               forceQuit \/ (phase \in {"stopping", "stopped"} /\ queue'[w] = <<>>)
      PROVE  StopInv'
  BY <1>1 DEF StopInv, ExitInv, DoneInv
<1>2. ASSUME NEW w \in Workers, NEW batch \in Batches, Push(w, batch) PROVE StopInv'
  <2>1. UNCHANGED <<phase, forceQuit, pc>> /\ phase = "running" /\ ~forceQuit
    BY <1>2 DEF Push, lifeVars, workVars
  <2> QED
    BY <1>0, <1>1, <2>1 DEF ExitInv
<1>3. ASSUME NEW w \in Workers, WorkerStep(w) PROVE StopInv'
  <2>1. UNCHANGED <<phase, forceQuit>> /\ pc[w] # "exited"
    BY <1>3 DEF WorkerStep, SendStep, WorkerTake, WorkerIdle, WorkerExit, Acquire, OpenStream,
       OpenFails, StreamYoung, RotateByAge, SkipFrame, RotateByBytes, WriteFrame, WriteLastFrame,
       WriteFails, ItemDone, lifeVars
  <2>2. phase # "stopped"
    BY <1>0, <2>1 DEF DoneInv, AllExited
  <2>3. CASE WorkerTake(w)
    <3>1. pc' = [pc EXCEPT ![w] = IF writer[w] THEN "age" ELSE "acquire"]
          /\ queue' = [queue EXCEPT ![w] = Tail(queue[w])]
      BY <2>3 DEF WorkerTake
    <3>2. pc'[w] # "exited" /\ \A v \in Workers \ {w} : pc'[v] = pc[v] /\ queue'[v] = queue[v]
      BY <1>0, <3>1
    <3> QED
      BY <1>0, <1>1, <2>1, <2>2, <3>2 DEF ExitInv
  <2>4. CASE WorkerExit(w)
    <3>1. /\ pc' = [pc EXCEPT ![w] = "exited"] /\ queue' = queue
          /\ forceQuit \/ (phase = "stopping" /\ queue[w] = <<>>)
      BY <2>4 DEF WorkerExit, queueVars
    <3> QED
      BY <1>0, <1>1, <2>1, <2>2, <3>1 DEF ExitInv
  <2>5. CASE ~WorkerTake(w) /\ ~WorkerExit(w)
    <3>1. /\ queue' = queue
          /\ pc' = pc \/ \E q \in {"wait", "acquire", "open", "age", "frame"} :
                           pc' = [pc EXCEPT ![w] = q]
      <4>1. CASE WorkerIdle(w) \/ SkipFrame(w) \/ WriteFrame(w)
        BY <4>1 DEF WorkerIdle, SkipFrame, WriteFrame, queueVars, workVars
      <4>2. CASE Acquire(w) \/ StreamYoung(w) \/ ItemDone(w)
        BY <4>2 DEF Acquire, StreamYoung, ItemDone, queueVars
      <4>3. CASE OpenStream(w)
        <5>1. resume[w] \in {"age", "frame"}
          BY <1>0
        <5> QED
          BY <4>3, <5>1 DEF OpenStream, queueVars
      <4>4. CASE OpenFails(w) \/ WriteFails(w)
        BY <4>4 DEF OpenFails, WriteFails, Abandon, queueVars
      <4>5. CASE RotateByAge(w) \/ RotateByBytes(w) \/ WriteLastFrame(w)
        BY <4>5 DEF RotateByAge, RotateByBytes, WriteLastFrame, RotateStream, queueVars
      <4> QED
        BY <1>3, <2>5, <4>1, <4>2, <4>3, <4>4, <4>5 DEF WorkerStep, SendStep
    <3>2. \A v \in Workers : pc'[v] = "exited" => pc[v] = "exited"
      BY <1>0, <3>1
    <3> QED
      BY <1>0, <1>1, <2>1, <2>2, <3>1, <3>2 DEF ExitInv
  <2> QED
    BY <2>3, <2>4, <2>5
<1>4. CASE CloseStep
  <2>1. UNCHANGED <<phase, forceQuit, pc, queue>> /\ closing # <<>>
    BY <1>4 DEF CloseStep, FinishStream, FinishFails, lifeVars, workVars, queueVars
  <2>2. phase # "stopped"
    BY <1>0, <2>1 DEF DoneInv
  <2> QED
    BY <1>0, <1>1, <2>1, <2>2 DEF ExitInv
<1>5. ASSUME NEW w \in Workers, DoStop(w) \/ StreamAges(w) PROVE StopInv'
  <2>1. UNCHANGED <<phase, forceQuit, pc, queue>> /\ writer[w]
    BY <1>5 DEF DoStop, StreamAges, lifeVars, workVars, queueVars
  <2>2. phase # "stopped"
    BY <1>0, <2>1 DEF DoneInv, AllClosed
  <2> QED
    BY <1>0, <1>1, <2>1, <2>2 DEF ExitInv
<1>6. CASE Start \/ StartFails
  <2>1. /\ UNCHANGED <<forceQuit, pc, queue>> /\ phase = "new" /\ phase' # "stopped"
        /\ \A w \in Workers : pc[w] = "wait"
    BY <1>6 DEF Start, StartFails, workVars, queueVars, Inv, NewInv
  <2> QED
    BY <2>1 DEF StopInv, ExitInv, DoneInv
<1>7. CASE StopBegin
  <2>1. /\ UNCHANGED <<forceQuit, pc, queue>> /\ phase \in {"running", "failed"}
        /\ phase' = "stopping"
    BY <1>7 DEF StopBegin, workVars, queueVars
  <2> QED
    BY <1>0, <2>1 DEF StopInv, ExitInv, DoneInv
<1>8. CASE StopEnd
  <2>1. /\ UNCHANGED <<forceQuit, pc, queue, writer, closing>> /\ phase = "stopping"
        /\ phase' = "stopped" /\ AllExited /\ AllClosed /\ closing = <<>>
    BY <1>8 DEF StopEnd, workVars, queueVars, streamVars
  <2> QED
    BY <1>0, <2>1 DEF StopInv, ExitInv, DoneInv, AllExited, AllClosed
<1>9. CASE ForceStop
  <2>1. /\ UNCHANGED <<phase, pc, queue>> /\ phase # "stopped" /\ forceQuit' = TRUE
    BY <1>9 DEF ForceStop, workVars, queueVars
  <2> QED
    BY <2>1 DEF StopInv, ExitInv, DoneInv
<1>10. CASE UNCHANGED vars
  <2>1. UNCHANGED <<phase, forceQuit, pc, queue, writer, closing>>
    BY <1>10 DEF vars, lifeVars, workVars, queueVars, streamVars
  <2> QED
    BY <1>0, <2>1 DEF StopInv, ExitInv, DoneInv, AllExited, AllClosed
<1> QED
  BY <1>2, <1>3, <1>4, <1>5, <1>6, <1>7, <1>8, <1>9, <1>10 DEF Next, StopStep, Terminated

\* When stop() has returned every connection is idle and every stream closed, and unless the
\* writer was forced, every frame offered to it has been ingested or counted as failed.
THEOREM StopIsFlush == Spec => []StopFlushes
<1>1. Spec => [](Inv /\ FrameInv /\ StopInv)
  BY InvInit, InvStep, FrameInit, FrameStep, StopInit, StopInvStep, PTL DEF Spec
<1>2. Inv /\ FrameInv /\ StopInv => StopFlushes
  <2> SUFFICES ASSUME Inv, FrameInv, StopInv, phase = "stopped"
               PROVE  /\ \A c \in DOMAIN inUse : ~inUse[c]
                      /\ \A w \in Workers : ~writer[w]
                      /\ ~forceQuit => offered \subseteq ingested \cup failed
    BY DEF StopFlushes
  <2>1. /\ \A w \in Workers : pc[w] = "exited" /\ ~writer[w]
        /\ closing = <<>> /\ inUse \in Seq(BOOLEAN)
    BY DEF StopInv, DoneInv, AllExited, AllClosed, Inv, TypeOK, PoolTypes
  <2>2. \A w \in Workers : handle[w] = NoConnection
    BY <2>1 DEF Inv, HandleInv
  <2>3. \A c \in DOMAIN inUse : ~inUse[c]
    <3> SUFFICES ASSUME NEW c \in DOMAIN inUse, inUse[c] PROVE FALSE
      OBVIOUS
    <3>1. c # NoConnection /\ DOMAIN closing = {}
      BY <2>1 DEF NoConnection
    <3>2. (\E w \in Workers : handle[w] = c) \/ (\E i \in DOMAIN closing : closing[i].connection = c)
      BY DEF Inv, OwnedInv
    <3> QED
      BY <2>2, <3>1, <3>2
  <2>4. ASSUME ~forceQuit, NEW f \in offered PROVE f \in ingested \cup failed
    <3>1. \A w \in Workers : queue[w] = <<>> /\ hand[w] = <<>> /\ sent[w] = <<>>
      BY <2>1, <2>4 DEF StopInv, ExitInv, FrameInv, EmptyInv
    <3>2. /\ \A w \in Workers : DOMAIN queue[w] = {} /\ FramesOf(hand[w]) = {} /\ FramesOf(sent[w]) = {}
          /\ DOMAIN closing = {}
      BY <2>1, <3>1, FramesOfEmpty
    <3>3. f \notin Waiting /\ f \notin InHand /\ f \notin InStream /\ f \notin InClosing
      BY <3>2, PlaceMembers
    <3>4. f \in Placed
      BY <2>4 DEF FrameInv, Covered
    <3> QED
      BY <3>3, <3>4 DEF Placed
  <2> QED
    BY <2>1, <2>3, <2>4
<1> QED
  BY <1>1, <1>2, PTL

-----------------------------------------------------------------------------
(* The limits of a stream.  Bytes() is a recursive function: what it       *)
(* computes follows from the well-foundedness of < on the naturals.        *)

\* Every non-empty set of naturals has a least element.
LEMMA LeastNat ==
  ASSUME NEW T, T \subseteq Nat, T # {}
  PROVE  \E x \in T : \A y \in T : x <= y
<1>1. PICK R : R = OpToRel(<, Nat)
  OBVIOUS
<1>2. IsWellFoundedOn(R, Nat)
  BY <1>1, NatLessThanWellFounded
<1>3. PICK x \in T : \A y \in T : ~(<<y, x>> \in R)
  BY <1>2, WFMin
<1>4. \A y \in Nat : y < x => <<y, x>> \in R
  BY <1>1 DEF OpToRel
<1>5. \A y \in T : ~(y < x)
  BY <1>3, <1>4
<1>6. \A y \in T : x <= y
  BY <1>5
<1> QED
  BY <1>6

\* A set with 0 and with the successor of each of its naturals has all of them.
LEMMA SetInduction ==
  ASSUME NEW S, 0 \in S, \A n \in Nat : n \in S => n + 1 \in S
  PROVE  Nat \subseteq S
<1> SUFFICES ASSUME ~(Nat \subseteq S) PROVE FALSE
  OBVIOUS
<1>1. PICK T : T = Nat \ S
  OBVIOUS
<1>2. T \subseteq Nat /\ T # {}
  BY <1>1
<1>3. PICK x \in T : \A y \in T : x <= y
  BY <1>2, LeastNat
<1>4. x # 0 /\ x \in Nat /\ x \notin S
  BY <1>1
<1>5. x - 1 \in Nat /\ x - 1 \notin T
  BY <1>3, <1>4
<1> QED
  BY <1>1, <1>4, <1>5

\* g gives the running sums of the sizes of a sequence of frames.
RunningSums(frames, n, g) ==
  g = [i \in 0 .. n |-> IF i = 0 THEN 0 ELSE g[i - 1] + frames[i].size]

\* Running sums exist up to every index.
LEMMA SumsExist ==
  ASSUME NEW frames, NEW n \in Nat
  PROVE  \E g : RunningSums(frames, n, g)
<1>1. PICK S : S = {m \in Nat : \E g : RunningSums(frames, m, g)}
  OBVIOUS
<1>2. 0 \in S
  <2>1. PICK g : g = [i \in 0 .. 0 |-> 0]
    OBVIOUS
  <2>2. RunningSums(frames, 0, g)
    BY <2>1 DEF RunningSums
  <2> QED
    BY <1>1, <2>2
<1>3. ASSUME NEW m \in Nat, m \in S PROVE m + 1 \in S
  <2>1. PICK g : RunningSums(frames, m, g)
    BY <1>1, <1>3
  <2>2. PICK h : h = [i \in 0 .. m + 1 |->
                        IF i = m + 1 THEN g[m] + frames[m + 1].size ELSE g[i]]
    OBVIOUS
  <2>3. \A i \in 0 .. m : h[i] = g[i]
    BY <2>2
  <2>4. \A i \in 0 .. m : g[i] = IF i = 0 THEN 0 ELSE g[i - 1] + frames[i].size
    BY <2>1 DEF RunningSums
  <2>5. \A i \in 0 .. m + 1 : i # 0 => i - 1 \in 0 .. m
    OBVIOUS
  <2>6. \A i \in 0 .. m + 1 : i \in 0 .. m \/ i = m + 1
    OBVIOUS
  <2>7. h[m + 1] = g[m] + frames[m + 1].size /\ m \in 0 .. m
    BY <2>2
  <2>8. \A i \in 0 .. m + 1 : h[i] = IF i = 0 THEN 0 ELSE h[i - 1] + frames[i].size
    BY <2>3, <2>4, <2>5, <2>6, <2>7
  <2>9. RunningSums(frames, m + 1, h)
    BY <2>2, <2>8 DEF RunningSums
  <2> QED
    BY <1>1, <2>9
<1> QED
  BY <1>1, <1>2, <1>3, SetInduction

\* Sums of sequences that agree up to an index agree up to that index.
LEMMA SumsAgree ==
  ASSUME NEW s, NEW t, NEW n \in Nat, NEW m \in Nat, n <= m,
         \A i \in 1 .. n : s[i] = t[i],
         NEW g, NEW h, RunningSums(s, n, g), RunningSums(t, m, h)
  PROVE  g[n] = h[n]
<1>1. PICK S : S = {i \in Nat : i <= n => g[i] = h[i]}
  OBVIOUS
<1>2. /\ \A i \in 0 .. n : g[i] = IF i = 0 THEN 0 ELSE g[i - 1] + s[i].size
      /\ \A i \in 0 .. m : h[i] = IF i = 0 THEN 0 ELSE h[i - 1] + t[i].size
  BY DEF RunningSums
<1>3. 0 \in S
  BY <1>1, <1>2
<1>4. \A i \in Nat : i \in S => i + 1 \in S
  BY <1>1, <1>2
<1> QED
  BY <1>1, <1>3, <1>4, SetInduction

\* Bytes() is the last running sum.
LEMMA BytesSum ==
  ASSUME NEW frames, Len(frames) \in Nat
  PROVE  \E g : RunningSums(frames, Len(frames), g) /\ Bytes(frames) = g[Len(frames)]
<1>1. PICK g : g = CHOOSE f : f = [i \in 0 .. Len(frames) |->
                                      IF i = 0 THEN 0 ELSE f[i - 1] + frames[i].size]
  OBVIOUS
<1>2. Bytes(frames) = g[Len(frames)]
  BY <1>1 DEF Bytes
<1>3. RunningSums(frames, Len(frames), g)
  BY <1>1, SumsExist DEF RunningSums
<1> QED
  BY <1>2, <1>3

\* A stream that carries nothing carries no bytes.
LEMMA BytesEmpty == Bytes(<<>>) = 0
<1>1. Len(<<>>) = 0
  OBVIOUS
<1>2. PICK g : RunningSums(<<>>, 0, g) /\ Bytes(<<>>) = g[0]
  BY <1>1, BytesSum
<1> QED
  BY <1>2 DEF RunningSums

\* A request more counts its bytes.
LEMMA BytesAppend ==
  ASSUME NEW s \in Seq(Frame), NEW f \in Frame
  PROVE  Bytes(Append(s, f)) = Bytes(s) + f.size
<1>1. PICK n : n = Len(s)
  OBVIOUS
<1>2. PICK t : t = Append(s, f)
  OBVIOUS
<1>3. n \in Nat /\ Len(t) = n + 1 /\ t[n + 1] = f /\ \A i \in 1 .. n : s[i] = t[i]
  BY <1>1, <1>2
<1>4. PICK g : RunningSums(s, n, g) /\ Bytes(s) = g[n]
  BY <1>1, <1>3, BytesSum
<1>5. PICK h : RunningSums(t, n + 1, h) /\ Bytes(t) = h[n + 1]
  BY <1>3, BytesSum
<1>6. g[n] = h[n]
  <2>1. n + 1 \in Nat /\ n <= n + 1
    BY <1>3
  <2> QED
    BY <1>3, <1>4, <1>5, <2>1, SumsAgree
<1>7. h[n + 1] = h[n] + f.size
  BY <1>3, <1>5 DEF RunningSums
<1> QED
  BY <1>2, <1>4, <1>5, <1>6, <1>7

-----------------------------------------------------------------------------
(* streamPayloadBytes and framesWritten count what the stream carries, and *)
(* leave room for a request at every step of the worker.                   *)

CountInv ==
  \A w \in Workers :
    /\ framesWritten[w] = Len(sent[w]) /\ payloadBytes[w] = Bytes(sent[w])
    /\ framesWritten[w] < MaxFramesPerStream
    /\ payloadBytes[w] <= StreamMaxBytes \/ Len(sent[w]) = 1
    /\ payloadBytes[w] = 0 => sent[w] = <<>>

ClosedWithin == \A i \in DOMAIN closing : WithinLimits(closing[i].frames)

LimitInv == CountInv /\ ClosedWithin

\* Streams open within the limits are within them.
LEMMA CountWithin ==
  ASSUME Inv, CountInv, NEW w \in Workers
  PROVE  WithinLimits(sent[w])
<1>1. sent[w] \in Seq(Frame) /\ Len(sent[w]) \in Nat
  BY DEF Inv, TypeOK, StreamTypes
<1> QED
  BY <1>1, WriterAssumption DEF CountInv, WithinLimits

\* A stream appended to the closing ones is the only one to look at.
LEMMA ClosedWithinAppend ==
  ASSUME Inv, ClosedWithin, NEW c, NEW frames \in Seq(Frame), c \in Connections,
         WithinLimits(frames),
         closing' = Append(closing, [connection |-> c, frames |-> frames])
  PROVE  ClosedWithin'
<1>1. closing \in Seq(ClosingStream) /\ [connection |-> c, frames |-> frames] \in ClosingStream
  BY DEF Inv, TypeOK, PoolTypes, ClosingStream
<1>2. /\ Len(closing) \in Nat /\ DOMAIN closing = 1 .. Len(closing)
      /\ DOMAIN closing' = 1 .. Len(closing) + 1
      /\ \A i \in 1 .. Len(closing) : closing'[i] = closing[i]
      /\ closing'[Len(closing) + 1].frames = frames
  BY <1>1
<1>3. \A i \in DOMAIN closing' : i \in DOMAIN closing \/ i = Len(closing) + 1
  BY <1>2
<1> QED
  BY <1>2, <1>3 DEF ClosedWithin, WithinLimits

\* closeStream() starts the counts again and hands over a stream within the limits.
LEMMA LimitClose ==
  ASSUME Inv, LimitInv, NEW w \in Workers, writer[w], NEW frames \in Seq(Frame),
         WithinLimits(frames), CloseStream(w, frames)
  PROVE  LimitInv'
<1>0. /\ CountInv /\ ClosedWithin
      /\ payloadBytes \in [Workers -> Nat] /\ framesWritten \in [Workers -> Nat]
      /\ sent \in [Workers -> Seq(Frame)] /\ handle \in [Workers -> Connections \cup {NoConnection}]
  BY DEF Inv, TypeOK, StreamTypes, LimitInv
<1>1. handle[w] \in Connections
  BY <1>0 DEF Inv, HandleInv
<1>2. ClosedWithin'
  BY <1>0, <1>1, ClosedWithinAppend DEF CloseStream
<1>3. payloadBytes'[w] = 0 /\ framesWritten'[w] = 0 /\ sent'[w] = <<>>
  BY <1>0 DEF CloseStream
<1>4. \A v \in Workers \ {w} : /\ payloadBytes'[v] = payloadBytes[v]
                               /\ framesWritten'[v] = framesWritten[v] /\ sent'[v] = sent[v]
  BY <1>0 DEF CloseStream
<1>5. Len(<<>>) = 0 /\ Bytes(<<>>) = 0
  BY BytesEmpty
<1>6. \A v \in Workers \ {w} :
        /\ framesWritten'[v] = Len(sent'[v]) /\ payloadBytes'[v] = Bytes(sent'[v])
        /\ framesWritten'[v] < MaxFramesPerStream
        /\ payloadBytes'[v] <= StreamMaxBytes \/ Len(sent'[v]) = 1
        /\ payloadBytes'[v] = 0 => sent'[v] = <<>>
  BY <1>0, <1>4 DEF CountInv
<1>7. /\ framesWritten'[w] = Len(sent'[w]) /\ payloadBytes'[w] = Bytes(sent'[w])
      /\ framesWritten'[w] < MaxFramesPerStream /\ payloadBytes'[w] <= StreamMaxBytes
      /\ payloadBytes'[w] = 0 => sent'[w] = <<>>
  BY <1>3, <1>5, WriterAssumption
<1>8. CountInv'
  BY <1>6, <1>7 DEF CountInv
<1> QED
  BY <1>2, <1>8 DEF LimitInv

\* A frame that processItem() may write keeps its stream within the limits.
LEMMA LimitAppend ==
  ASSUME Inv, LimitInv, NEW w \in Workers, hand[w] # <<>>, Sendable(Head(hand[w])), ~Overflows(w)
  PROVE  /\ Head(hand[w]) \in Frame /\ Append(sent[w], Head(hand[w])) \in Seq(Frame)
         /\ Len(Append(sent[w], Head(hand[w]))) = framesWritten[w] + 1
         /\ Bytes(Append(sent[w], Head(hand[w]))) = payloadBytes[w] + Head(hand[w]).size
         /\ payloadBytes[w] + Head(hand[w]).size > 0
         /\ \/ payloadBytes[w] + Head(hand[w]).size <= StreamMaxBytes
            \/ framesWritten[w] + 1 = 1
<1>0. /\ CountInv /\ sent[w] \in Seq(Frame) /\ hand[w] \in Seq(Frame)
      /\ payloadBytes[w] \in Nat /\ framesWritten[w] \in Nat
  BY DEF Inv, TypeOK, WorkTypes, StreamTypes, LimitInv
<1>1. PICK f : f = Head(hand[w])
  OBVIOUS
<1>2. f \in Frame
  BY <1>0, <1>1
<1>3. f.size \in Int /\ f.size > 0
  BY <1>1, <1>2 DEF Sendable, Frame, Sizes, NoTimestamps, NoColumns
<1>4. Bytes(Append(sent[w], f)) = payloadBytes[w] + f.size
  BY <1>0, <1>2, BytesAppend DEF CountInv
<1>5. Len(Append(sent[w], f)) = framesWritten[w] + 1 /\ Append(sent[w], f) \in Seq(Frame)
  BY <1>0, <1>2 DEF CountInv
<1>6. payloadBytes[w] + f.size > 0
  BY <1>0, <1>3
<1>7. \/ payloadBytes[w] + f.size <= StreamMaxBytes
      \/ framesWritten[w] + 1 = 1
  <2>1. CASE payloadBytes[w] = 0
    <3>1. sent[w] = <<>>
      BY <1>0, <2>1 DEF CountInv
    <3>2. framesWritten[w] = 0
      BY <1>0, <3>1 DEF CountInv
    <3> QED
      BY <3>2
  <2>2. CASE payloadBytes[w] > 0
    BY <1>0, <1>1, <1>3, <2>2, WriterAssumption DEF Overflows
  <2> QED
    BY <1>0, <2>1, <2>2
<1> QED
  BY <1>1, <1>2, <1>4, <1>5, <1>6, <1>7

\* A frame goes out: the counts follow what the stream carries.
LEMMA LimitWrite ==
  ASSUME Inv, LimitInv, NEW w \in Workers, WriteFrame(w)
  PROVE  LimitInv'
<1>0. /\ CountInv /\ ClosedWithin
      /\ payloadBytes \in [Workers -> Nat] /\ framesWritten \in [Workers -> Nat]
      /\ sent \in [Workers -> Seq(Frame)]
  BY DEF Inv, TypeOK, StreamTypes, LimitInv
<1>1. /\ hand[w] # <<>> /\ Sendable(Head(hand[w])) /\ ~Overflows(w)
      /\ framesWritten[w] + 1 < MaxFramesPerStream /\ closing' = closing
  BY DEF WriteFrame
<1>2. PICK f : f = Head(hand[w])
  OBVIOUS
<1>3. PICK s : s = Append(sent[w], f)
  OBVIOUS
<1>4. /\ f \in Frame /\ s \in Seq(Frame)
      /\ Len(s) = framesWritten[w] + 1 /\ Bytes(s) = payloadBytes[w] + f.size
      /\ payloadBytes[w] + f.size > 0
      /\ payloadBytes[w] + f.size <= StreamMaxBytes \/ framesWritten[w] + 1 = 1
  BY <1>1, <1>2, <1>3, LimitAppend
<1>5. /\ sent'[w] = s /\ framesWritten'[w] = framesWritten[w] + 1
      /\ payloadBytes'[w] = payloadBytes[w] + f.size
  BY <1>0, <1>2, <1>3 DEF WriteFrame
<1>6. \A v \in Workers \ {w} : /\ payloadBytes'[v] = payloadBytes[v]
                               /\ framesWritten'[v] = framesWritten[v] /\ sent'[v] = sent[v]
  BY <1>0 DEF WriteFrame
<1>7. \A v \in Workers \ {w} :
        /\ framesWritten'[v] = Len(sent'[v]) /\ payloadBytes'[v] = Bytes(sent'[v])
        /\ framesWritten'[v] < MaxFramesPerStream
        /\ payloadBytes'[v] <= StreamMaxBytes \/ Len(sent'[v]) = 1
        /\ payloadBytes'[v] = 0 => sent'[v] = <<>>
  BY <1>0, <1>6 DEF CountInv
<1>8. /\ framesWritten'[w] = Len(sent'[w]) /\ payloadBytes'[w] = Bytes(sent'[w])
      /\ framesWritten'[w] < MaxFramesPerStream
      /\ payloadBytes'[w] <= StreamMaxBytes \/ Len(sent'[w]) = 1
      /\ payloadBytes'[w] # 0
  <2>1. payloadBytes[w] + f.size \in Int /\ framesWritten[w] \in Nat
    BY <1>0, <1>4 DEF Frame, Sizes, NoTimestamps, NoColumns
  <2>2. payloadBytes'[w] # 0
    BY <1>4, <1>5, <2>1
  <2> QED
    BY <1>1, <1>4, <1>5, <2>2
<1>9. CountInv'
  BY <1>7, <1>8 DEF CountInv
<1> QED
  BY <1>0, <1>1, <1>9 DEF LimitInv, ClosedWithin

\* The counts of an unopened stream are zero, which is what ensureStream() sets.
LEMMA LimitOpen ==
  ASSUME Inv, EmptyInv, LimitInv, NEW w \in Workers, OpenStream(w)
  PROVE  LimitInv'
<1>0. CountInv /\ ClosedWithin /\ payloadBytes \in [Workers -> Nat]
  BY DEF Inv, TypeOK, StreamTypes, LimitInv
<1>1. ~writer[w] /\ sent[w] = <<>>
  BY DEF Inv, HandleInv, OpenStream, EmptyInv
<1>2. payloadBytes[w] = 0
  BY <1>0, <1>1, BytesEmpty DEF CountInv
<1>3. payloadBytes' = payloadBytes /\ UNCHANGED <<framesWritten, sent, closing>>
  BY <1>0, <1>2 DEF OpenStream
<1> QED
  BY <1>0, <1>3 DEF LimitInv, CountInv, ClosedWithin

\* The stream at the head of the closing ones is finished.
LEMMA LimitFinish ==
  ASSUME Inv, LimitInv, closing # <<>>, closing' = Tail(closing), UNCHANGED streamVars
  PROVE  LimitInv'
<1>0. CountInv /\ ClosedWithin /\ closing \in Seq(ClosingStream)
  BY DEF Inv, TypeOK, PoolTypes, LimitInv
<1>1. \A i \in DOMAIN closing' : i + 1 \in DOMAIN closing /\ closing'[i] = closing[i + 1]
  BY <1>0
<1>2. ClosedWithin'
  BY <1>0, <1>1 DEF ClosedWithin, WithinLimits
<1> QED
  BY <1>0, <1>2 DEF LimitInv, CountInv, streamVars

\* Every step of a worker keeps the streams within their limits.
LEMMA LimitWorker ==
  ASSUME Inv, EmptyInv, LimitInv, NEW w \in Workers, WorkerStep(w)
  PROVE  LimitInv'
<1>0. /\ sent[w] \in Seq(Frame) /\ HandleInv /\ CountInv /\ ClosedWithin
      /\ WithinLimits(sent[w])
  BY CountWithin DEF Inv, TypeOK, StreamTypes, LimitInv
<1>1. CASE CloseStream(w, sent[w]) /\ writer[w]
  BY <1>0, <1>1, LimitClose
<1>2. CASE UNCHANGED <<payloadBytes, framesWritten, sent, closing>>
  BY <1>0, <1>2 DEF LimitInv, CountInv, ClosedWithin
<1>3. CASE WriteFrame(w)
  BY <1>3, LimitWrite
<1>4. CASE WriteLastFrame(w)
  <2>1. /\ hand[w] # <<>> /\ Sendable(Head(hand[w])) /\ ~Overflows(w) /\ writer[w]
        /\ CloseStream(w, Append(sent[w], Head(hand[w])))
    BY <1>0, <1>4 DEF WriteLastFrame, RotateStream, HandleInv
  <2>2. PICK s : s = Append(sent[w], Head(hand[w]))
    OBVIOUS
  <2>3. /\ s \in Seq(Frame) /\ Len(s) = framesWritten[w] + 1
        /\ Bytes(s) <= StreamMaxBytes \/ framesWritten[w] + 1 = 1
    BY <2>1, <2>2, LimitAppend
  <2>4. framesWritten[w] < MaxFramesPerStream /\ framesWritten[w] \in Nat
    BY <1>0 DEF CountInv, Inv, TypeOK, StreamTypes
  <2>5. WithinLimits(s)
    BY <2>3, <2>4, WriterAssumption DEF WithinLimits
  <2> QED
    BY <2>1, <2>2, <2>3, <2>5, LimitClose
<1>5. CASE OpenStream(w)
  BY <1>5, LimitOpen
<1>6. CASE \/ WorkerTake(w) \/ WorkerExit(w) \/ Acquire(w) \/ OpenFails(w) \/ StreamYoung(w)
           \/ SkipFrame(w)
  <2>1. UNCHANGED <<payloadBytes, framesWritten, sent, closing>>
    BY <1>6 DEF WorkerTake, WorkerExit, Acquire, OpenFails, StreamYoung, SkipFrame, streamVars
  <2> QED
    BY <1>2, <2>1
<1>7. CASE WorkerIdle(w) \/ RotateByAge(w) \/ RotateByBytes(w) \/ WriteFails(w)
  <2>1. CloseStream(w, sent[w]) /\ writer[w]
    BY <1>0, <1>7 DEF WorkerIdle, RotateByAge, RotateByBytes, WriteFails, RotateStream, HandleInv
  <2> QED
    BY <1>1, <2>1
<1>8. CASE ItemDone(w)
  <2>1. writer[w]
    BY <1>0, <1>8 DEF ItemDone, HandleInv
  <2>2. CASE UNCHANGED <<streamVars, closing>>
    BY <1>2, <2>2 DEF streamVars
  <2> QED
    BY <1>1, <1>8, <2>1, <2>2 DEF ItemDone
<1> QED
  BY <1>3, <1>4, <1>5, <1>6, <1>7, <1>8 DEF WorkerStep, SendStep

\* Every step keeps the streams within their limits.
LEMMA LimitStep == Inv /\ FrameInv /\ LimitInv /\ [Next]_vars => LimitInv'
<1> SUFFICES ASSUME Inv, FrameInv, LimitInv, [Next]_vars PROVE LimitInv'
  OBVIOUS
<1>0. EmptyInv /\ CountInv /\ ClosedWithin
  BY DEF FrameInv, LimitInv
<1>1. CASE \E w \in Workers : WorkerStep(w)
  BY <1>0, <1>1, LimitWorker
<1>2. CASE CloseStep
  <2>1. closing # <<>> /\ closing' = Tail(closing) /\ UNCHANGED streamVars
    BY <1>2 DEF CloseStep, FinishStream, FinishFails
  <2> QED
    BY <2>1, LimitFinish
<1>3. CASE \E w \in Workers : DoStop(w)
  <2>1. PICK w \in Workers : DoStop(w)
    BY <1>3
  <2>2. writer[w] /\ CloseStream(w, sent[w])
    BY <2>1 DEF DoStop
  <2>3. sent[w] \in Seq(Frame) /\ WithinLimits(sent[w])
    BY <1>0, CountWithin DEF Inv, TypeOK, StreamTypes
  <2> QED
    BY <2>2, <2>3, LimitClose
<1>4. CASE \/ Start \/ StartFails \/ StopBegin \/ StopEnd \/ ForceStop \/ UNCHANGED vars
           \/ \E w \in Workers : StreamAges(w)
           \/ \E w \in Workers : \E batch \in Batches : Push(w, batch)
  <2>1. UNCHANGED <<payloadBytes, framesWritten, sent, closing>>
    BY <1>4 DEF Start, StartFails, StopBegin, StopEnd, ForceStop, StreamAges, Push, vars, streamVars
  <2> QED
    BY <1>0, <2>1 DEF LimitInv, CountInv, ClosedWithin
<1> QED
  BY <1>1, <1>2, <1>3, <1>4 DEF Next, StopStep, Terminated

\* Initially no stream carries anything.
LEMMA LimitInit == Init => LimitInv
<1> SUFFICES ASSUME Init PROVE LimitInv
  OBVIOUS
<1>1. Len(<<>>) = 0 /\ Bytes(<<>>) = 0
  BY BytesEmpty
<1>2. CountInv
  BY <1>1, WriterAssumption DEF Init, CountInv
<1>3. ClosedWithin
  BY DEF Init, ClosedWithin
<1> QED
  BY <1>2, <1>3 DEF LimitInv

\* Whatever rotates, fails or ages, no stream ever carries more requests than
\* max-frames-per-stream or, with two requests or more, more bytes than stream-max-bytes.
THEOREM StreamsWithinLimits == Spec => []StreamLimits
<1>1. Inv /\ LimitInv => StreamLimits
  BY CountWithin DEF LimitInv, ClosedWithin, StreamLimits
<1> QED
  BY <1>1, InvInit, InvStep, FrameInit, FrameStep, LimitInit, LimitStep, PTL DEF Spec
=============================================================================
