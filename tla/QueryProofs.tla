---------------------------- MODULE QueryProofs -----------------------------
(***************************************************************************)
(* What the query side keeps and shares: persistent tables, connections    *)
(* and spill files.                                                        *)
(*                                                                         *)
(* TableCatalog: persistent tables stay sound whatever fails or dies, for  *)
(* any number of processes, tables, failures and crashes.  The invariant   *)
(* says what each step of create() and drop() may find on disk.  A data    *)
(* file always comes from a create() that reported no error, with or       *)
(* without metadata beside it: metadata left over from a drop() that died  *)
(* would otherwise make it a table.                                        *)
(*                                                                         *)
(* QueryScan: a scan never starves itself of connections, for any shards,  *)
(* pool, windows and failures.  The shards in flight lie between the one   *)
(* that is read and the first one without a task, and these are never      *)
(* further apart than the limit.  Its rows come in order and are exact.    *)
(* Each shard's next bucket is known (ReadInv), rows handed out lie before *)
(* it (RowsInv, ApartInv), and what the scan has passed is handed out or   *)
(* was never asked for (CompleteInv).                                      *)
(*                                                                         *)
(* SpillFiles: spilled batches come back as written and leave no file, for *)
(* any statements, but for those that meet on one path.  A file has one    *)
(* path for ever, and a manager never uses a path again: what others do on *)
(* other paths cannot reach it.                                            *)
(***************************************************************************)
EXTENDS TableCatalog, SpillFiles, QueryScan, FiniteSetTheorems, WellFoundedInduction, TLAPS

-----------------------------------------------------------------------------
(* Tables. *)

Outcomes == {"running", "ok", "error", "unreported", "session", "dropped", "crashed"}
Sound    == {"ok", "running", "crashed", "unreported"}

BeforeMove  == {"open_table", "write_table", "write_meta", "move_data"}
TablePoints == BeforeMove \cup {"move_meta", "stat"}
SessionPoints == {"open_session", "write_session", "move_session"}
Stops == {"idle", "open_table", "write_table", "write_meta", "move_data", "move_meta", "stat",
           "open_session", "write_session", "move_session", "drop_data", "drop_meta", "drop_session"}
Stages == [at : Stops, id : Nat]

\* Types, as far as the argument needs them.
TypeInv ==
  /\ creates \in Nat
  /\ op \in [Clients -> Stages]
  /\ session \in [Clients -> Nat]
  /\ outcome \in Seq(Outcomes) /\ Len(outcome) = creates

\* One statement runs at a time.
OneInv == \A c, d \in Clients : op[c] # Idle /\ op[d] # Idle => c = d

\* A create() under way: its number, still running, and no acknowledged table,
\* because it began with none.
CreateInv(c) ==
  op[c].at \in TablePoints \cup SessionPoints =>
    /\ op[c].id \in 1 .. creates
    /\ outcome[op[c].id] = "running"
    /\ \A i \in 1 .. creates : outcome[i] # "ok"

\* What it has written.  Until the data is moved, what lies at its final path
\* is not of this create().
WrittenInv(c) ==
  /\ op[c].at \in {"write_meta", "move_data"} =>
       Has("data.partial") /\ files["data.partial"] = op[c].id
  /\ op[c].at \in {"move_meta", "stat"} => Has("data") /\ files["data"] = op[c].id
  /\ op[c].at = "stat" => Has("meta")
  /\ op[c].at \in BeforeMove \cup SessionPoints => (Has("data") => files["data"] # op[c].id)

\* A drop() under way.
DropInv(c) ==
  /\ op[c].at = "drop_data" => Has("data") /\ files["data"] = op[c].id
  /\ op[c].at = "drop_meta" => ~Has("data") /\ op[c].id \in 1 .. creates

ClientInv(c) == CreateInv(c) /\ WrittenInv(c) /\ DropInv(c)

\* A data file is the work of a create() that reported no error.
DataInv ==
  Has("data") => files["data"] \in 1 .. creates /\ outcome[files["data"]] \in Sound

\* An acknowledged table is there, with its metadata.
AckInv == \A i \in 1 .. creates : outcome[i] = "ok" => Has("meta") /\ Has("data") /\ files["data"] = i

IInv == TypeInv /\ OneInv /\ (\A c \in Clients : ClientInv(c)) /\ DataInv /\ AckInv

-----------------------------------------------------------------------------
(* The outcomes, and the client that takes a step.                          *)

\* A create() that begins adds one outcome, at the end.
LEMMA OutcomeAdded ==
  ASSUME TypeInv
  PROVE  /\ Append(outcome, "running") \in Seq(Outcomes)
         /\ Len(Append(outcome, "running")) = creates + 1
         /\ Append(outcome, "running")[creates + 1] = "running"
         /\ \A i \in 1 .. creates : Append(outcome, "running")[i] = outcome[i]
  BY DEF TypeInv, Outcomes

\* A statement that ends, or a drop, changes one outcome.
LEMMA OutcomeChanged ==
  ASSUME TypeInv, NEW n \in 1 .. creates, NEW how \in Outcomes
  PROVE  /\ [outcome EXCEPT ![n] = how] \in Seq(Outcomes)
         /\ Len([outcome EXCEPT ![n] = how]) = creates
         /\ [outcome EXCEPT ![n] = how][n] = how
         /\ \A i \in 1 .. creates : i # n => [outcome EXCEPT ![n] = how][i] = outcome[i]
  BY DEF TypeInv

\* A client that runs no statement promises nothing.
LEMMA IdleClient ==
  ASSUME NEW d, op[d] = Idle
  PROVE  ClientInv(d)
  BY DEF ClientInv, CreateInv, WrittenInv, DropInv, Idle, TablePoints, SessionPoints, BeforeMove

\* A client that begins a statement while all are idle, or goes on with its own,
\* is the only one at work.
LEMMA OneAtWork ==
  ASSUME TypeInv, OneInv, NEW c \in Clients, Serial \/ op[c] # Idle,
         NEW r \in Stages, op' = [op EXCEPT ![c] = r]
  PROVE  /\ op' \in [Clients -> Stages]
         /\ OneInv'
         /\ op'[c] = r
         /\ \A d \in Clients : d # c => op'[d] = Idle
  BY DEF TypeInv, OneInv, Serial

\* Go() changes the point and keeps the number.
LEMMA GoFacts ==
  ASSUME TypeInv, OneInv, NEW c \in Clients, op[c] # Idle, NEW point \in Stops, Go(c, point)
  PROVE  /\ op' \in [Clients -> Stages]
         /\ OneInv'
         /\ op'[c].at = point /\ op'[c].id = op[c].id
         /\ \A d \in Clients : d # c => op'[d] = Idle
<1>1. op' = [op EXCEPT ![c] = [at |-> point, id |-> op[c].id]]
  <2>1. op[c] \in Stages
    BY DEF TypeInv
  <2>2. [op[c] EXCEPT !.at = point] = [at |-> point, id |-> op[c].id]
    BY <2>1 DEF Stages
  <2>3. op' = [op EXCEPT ![c] = [op[c] EXCEPT !.at = point]]
    BY DEF Go
  <2>4. QED
    BY <2>2, <2>3
<1>2. [at |-> point, id |-> op[c].id] \in Stages
  BY DEF TypeInv, Stages
<1>3. QED
  BY <1>1, <1>2, OneAtWork

\* What remains to be shown of a step of c.
LEMMA StepOf ==
  ASSUME NEW c \in Clients, TypeInv', OneInv', ClientInv(c)', DataInv', AckInv',
         \A d \in Clients : d # c => op'[d] = Idle
  PROVE  IInv'
<1>1. ASSUME NEW d \in Clients PROVE ClientInv(d)'
  <2>1. CASE d = c
    BY <2>1
  <2>2. CASE d # c
    <3>1. op'[d] = Idle
      BY <2>2
    <3>2. QED
      BY <3>1 DEF ClientInv, CreateInv, WrittenInv, DropInv, Idle, TablePoints, SessionPoints, BeforeMove
  <2>3. QED
    BY <2>1, <2>2
<1>2. QED
  BY <1>1 DEF IInv

-----------------------------------------------------------------------------
(* The steps of create().                                                   *)

\* A create() begins only when find() sees no table: whatever data file lies
\* there, no acknowledged one does, and its number is not the new one.
LEMMA BeginCreateStep ==
  ASSUME IInv, NEW c \in Clients, NEW first \in {"open_table", "open_session"},
         BeginCreate(c, first)
  PROVE  IInv'
<1>1. creates' = creates + 1 /\ outcome' = Append(outcome, "running") /\ files' = files
  BY DEF BeginCreate
<1>2. creates \in Nat /\ creates' \in Nat
  BY <1>1 DEF IInv, TypeInv
<1>3. PICK r \in Stages :
        r.at = first /\ r.id = creates + 1 /\ op' = [op EXCEPT ![c] = r]
  <2>1. [at |-> first, id |-> creates + 1] \in Stages
    BY <1>2 DEF Stages, Stops
  <2>2. op' = [op EXCEPT ![c] = [at |-> first, id |-> creates + 1]]
    BY <1>1 DEF BeginCreate
  <2>3. QED
    BY <2>1, <2>2
<1>4. /\ op' \in [Clients -> Stages]
      /\ OneInv'
      /\ op'[c] = r
      /\ \A d \in Clients : d # c => op'[d] = Idle
  BY <1>3, OneAtWork DEF BeginCreate, IInv
<1>5. TypeInv'
  BY <1>1, <1>2, <1>4, OutcomeAdded DEF IInv, TypeInv, BeginCreate
<1>6. \A i \in 1 .. creates : outcome[i] # "ok"
  <2>1. ~(Has("meta") /\ Has("data") /\ files["data"] # Torn)
    BY DEF BeginCreate, Found, FoundPersistent
  <2>2. Has("data") => files["data"] # Torn
    BY <1>2 DEF IInv, DataInv, Torn
  <2>3. QED
    BY <2>1, <2>2 DEF IInv, AckInv
<1>7. \A i \in 1 .. creates' : outcome'[i] # "ok"
  BY <1>1, <1>2, <1>6, OutcomeAdded DEF IInv
<1>8. DataInv'
  BY <1>1, <1>2, OutcomeAdded DEF IInv, DataInv, Has
<1>9. ClientInv(c)'
  <2>1. CreateInv(c)'
    BY <1>1, <1>2, <1>3, <1>4, <1>7, OutcomeAdded DEF IInv, CreateInv
  <2>2. Has("data")' => files'["data"] # op'[c].id
    BY <1>1, <1>2, <1>3, <1>4 DEF IInv, DataInv, Has
  <2>3. WrittenInv(c)'
    BY <1>3, <1>4, <2>2 DEF WrittenInv, BeforeMove, SessionPoints
  <2>4. DropInv(c)'
    BY <1>3, <1>4 DEF DropInv
  <2>5. QED
    BY <2>1, <2>3, <2>4 DEF ClientInv
<1>10. AckInv'
  BY <1>7 DEF AckInv
<1>11. QED
  BY <1>4, <1>5, <1>8, <1>9, <1>10, StepOf

\* A step that writes a .partial file touches no table.
LEMMA WriteStep ==
  ASSUME IInv, NEW c \in Clients, NEW from \in Stops, NEW to \in Stops,
         NEW p \in {"data.partial", "meta.partial", "session.partial"}, NEW content,
         op[c].at = from, Go(c, to), files' = With(p, content),
         UNCHANGED <<session, creates, ioFaults, crashes, outcome>>,
         \/ from = "open_table" /\ to = "write_table" /\ p = "data.partial"
         \/ from = "write_table" /\ to = "write_meta" /\ p = "data.partial" /\ content = op[c].id
         \/ from = "write_meta" /\ to = "move_data" /\ p = "meta.partial"
         \/ from = "open_session" /\ to = "write_session" /\ p = "session.partial"
         \/ from = "write_session" /\ to = "move_session" /\ p = "session.partial"
  PROVE  IInv'
<1>3. op[c] # Idle
  BY DEF Idle
<1>4. /\ op' \in [Clients -> Stages]
      /\ OneInv'
      /\ op'[c].at = to /\ op'[c].id = op[c].id
      /\ \A d \in Clients : d # c => op'[d] = Idle
  BY <1>3, GoFacts DEF IInv
<1>5. TypeInv'
  BY <1>4 DEF IInv, TypeInv
<1>6. (Has("data")' <=> Has("data")) /\ (Has("data") => files'["data"] = files["data"])
      /\ (Has("meta")' <=> Has("meta"))
  BY DEF With, Has
<1>7. DataInv' /\ AckInv'
  BY <1>6 DEF IInv, DataInv, AckInv
<1>8. ClientInv(c)
  BY DEF IInv
<1>9. CreateInv(c)'
  BY <1>4, <1>8 DEF ClientInv, CreateInv, TablePoints, BeforeMove, SessionPoints
<1>10. from = "write_table" => Has("data.partial")' /\ files'["data.partial"] = op[c].id
  BY DEF With, Has
<1>11. from = "write_meta" => Has("data.partial")' /\ files'["data.partial"] = op[c].id
  BY <1>8 DEF With, Has, ClientInv, WrittenInv
<1>12. WrittenInv(c)'
  BY <1>4, <1>6, <1>8, <1>10, <1>11 DEF ClientInv, WrittenInv, BeforeMove, SessionPoints
<1>13. DropInv(c)'
  BY <1>4 DEF DropInv
<1>14. QED
  BY <1>4, <1>5, <1>7, <1>9, <1>12, <1>13, StepOf DEF ClientInv

\* The data is moved to its final path: it is of a create() that still runs,
\* which is no error, whether or not metadata of an older table lies there.
LEMMA MoveDataStep ==
  ASSUME IInv, NEW c \in Clients, MoveData(c)
  PROVE  IInv'
<1>1. op[c].at = "move_data" /\ Go(c, "move_meta") /\ files' = Moved("data.partial", "data")
      /\ UNCHANGED <<session, creates, ioFaults, crashes, outcome>>
  BY DEF MoveData, Step, At
<1>2. op[c] # Idle
  BY <1>1 DEF Idle
<1>3. /\ op' \in [Clients -> Stages]
      /\ OneInv'
      /\ op'[c].at = "move_meta" /\ op'[c].id = op[c].id
      /\ \A d \in Clients : d # c => op'[d] = Idle
  BY <1>1, <1>2, GoFacts DEF IInv, Stops
<1>4. ClientInv(c)
  BY DEF IInv
<1>5. Has("data")' /\ files'["data"] = op[c].id
  BY <1>1, <1>4 DEF Moved, Has, ClientInv, WrittenInv
<1>6. op[c].id \in 1 .. creates /\ outcome[op[c].id] = "running"
      /\ \A i \in 1 .. creates : outcome[i] # "ok"
  BY <1>1, <1>4 DEF ClientInv, CreateInv, TablePoints, BeforeMove
<1>7. TypeInv'
  BY <1>1, <1>3 DEF IInv, TypeInv
<1>8. ClientInv(c)'
  BY <1>1, <1>3, <1>5, <1>6 DEF ClientInv, CreateInv, WrittenInv, DropInv, TablePoints, BeforeMove, SessionPoints
<1>9. DataInv' /\ AckInv'
  BY <1>1, <1>5, <1>6 DEF DataInv, AckInv, Sound
<1>10. QED
  BY <1>3, <1>7, <1>8, <1>9, StepOf

\* The metadata follows.
LEMMA MoveMetaStep ==
  ASSUME IInv, NEW c \in Clients, MoveMeta(c)
  PROVE  IInv'
<1>1. op[c].at = "move_meta" /\ Go(c, "stat") /\ files' = Moved("meta.partial", "meta")
      /\ UNCHANGED <<session, creates, ioFaults, crashes, outcome>>
  BY DEF MoveMeta, Step, At
<1>2. op[c] # Idle
  BY <1>1 DEF Idle
<1>3. /\ op' \in [Clients -> Stages]
      /\ OneInv'
      /\ op'[c].at = "stat" /\ op'[c].id = op[c].id
      /\ \A d \in Clients : d # c => op'[d] = Idle
  BY <1>1, <1>2, GoFacts DEF IInv, Stops
<1>4. ClientInv(c)
  BY DEF IInv
<1>5. Has("meta")' /\ Has("data")' /\ files'["data"] = op[c].id /\ files["data"] = op[c].id
  BY <1>1, <1>4 DEF Moved, Has, ClientInv, WrittenInv
<1>6. op[c].id \in 1 .. creates /\ outcome[op[c].id] = "running"
      /\ \A i \in 1 .. creates : outcome[i] # "ok"
  BY <1>1, <1>4 DEF ClientInv, CreateInv, TablePoints, BeforeMove
<1>7. TypeInv'
  BY <1>1, <1>3 DEF IInv, TypeInv
<1>8. ClientInv(c)'
  BY <1>1, <1>3, <1>5, <1>6 DEF ClientInv, CreateInv, WrittenInv, DropInv, TablePoints, BeforeMove, SessionPoints
<1>9. DataInv' /\ AckInv'
  BY <1>1, <1>5, <1>6 DEF DataInv, AckInv, Sound
<1>10. QED
  BY <1>3, <1>7, <1>8, <1>9, StepOf

\* A statement that ends leaves no client at work.
LEMMA EndFacts ==
  ASSUME TypeInv, OneInv, NEW c \in Clients, op[c] # Idle, op' = [op EXCEPT ![c] = Idle]
  PROVE  op' \in [Clients -> Stages] /\ OneInv' /\ \A d \in Clients : op'[d] = Idle
<1>1. Idle \in Stages
  BY DEF Idle, Stages, Stops, None
<1>2. QED
  BY <1>1, OneAtWork

\* What remains to be shown of the end of a statement.
LEMMA EndOf ==
  ASSUME NEW c \in Clients, TypeInv', OneInv', DataInv', AckInv',
         \A d \in Clients : op'[d] = Idle
  PROVE  IInv'
<1>1. ClientInv(c)'
  BY DEF ClientInv, CreateInv, WrittenInv, DropInv, Idle, TablePoints, SessionPoints, BeforeMove
<1>2. QED
  BY <1>1, StepOf

\* The table is acknowledged: data and metadata are there.
LEMMA CreatedStep ==
  ASSUME IInv, NEW c \in Clients, Created(c)
  PROVE  IInv'
<1>1. /\ op[c].at = "stat"
      /\ op' = [op EXCEPT ![c] = Idle] /\ outcome' = [outcome EXCEPT ![op[c].id] = "ok"]
      /\ UNCHANGED <<files, session, creates>>
  BY DEF Created, At, Return
<1>2. op[c] # Idle
  BY <1>1 DEF Idle
<1>3. op' \in [Clients -> Stages] /\ OneInv' /\ \A d \in Clients : op'[d] = Idle
  BY <1>1, <1>2, EndFacts DEF IInv
<1>4. /\ op[c].id \in 1 .. creates
      /\ \A i \in 1 .. creates : outcome[i] # "ok"
      /\ Has("data") /\ files["data"] = op[c].id /\ Has("meta")
  BY <1>1 DEF IInv, ClientInv, CreateInv, WrittenInv, TablePoints
<1>5. /\ outcome' \in Seq(Outcomes) /\ Len(outcome') = creates
      /\ outcome'[op[c].id] = "ok"
      /\ \A i \in 1 .. creates : i # op[c].id => outcome'[i] = outcome[i]
  BY <1>1, <1>4, OutcomeChanged, "ok" \in Outcomes DEF IInv, Outcomes
<1>6. TypeInv'
  BY <1>1, <1>3, <1>5 DEF IInv, TypeInv
<1>7. DataInv' /\ AckInv'
  BY <1>1, <1>4, <1>5 DEF DataInv, AckInv, Has, Sound
<1>8. QED
  BY <1>3, <1>6, <1>7, EndOf

\* A session table is not a persistent one.
LEMMA MoveSessionStep ==
  ASSUME IInv, NEW c \in Clients, MoveSession(c)
  PROVE  IInv'
<1>1. /\ op[c].at = "move_session"
      /\ op' = [op EXCEPT ![c] = Idle] /\ outcome' = [outcome EXCEPT ![op[c].id] = "session"]
      /\ files' = Moved("session.partial", "session")
      /\ session' = [session EXCEPT ![c] = op[c].id]
      /\ UNCHANGED creates
  BY DEF MoveSession, At, Return
<1>2. op[c] # Idle
  BY <1>1 DEF Idle
<1>3. op' \in [Clients -> Stages] /\ OneInv' /\ \A d \in Clients : op'[d] = Idle
  BY <1>1, <1>2, EndFacts DEF IInv
<1>4. /\ op[c].id \in 1 .. creates
      /\ \A i \in 1 .. creates : outcome[i] # "ok"
      /\ Has("data") => files["data"] # op[c].id
  BY <1>1 DEF IInv, ClientInv, CreateInv, WrittenInv, SessionPoints
<1>5. /\ outcome' \in Seq(Outcomes) /\ Len(outcome') = creates
      /\ outcome'[op[c].id] = "session"
      /\ \A i \in 1 .. creates : i # op[c].id => outcome'[i] = outcome[i]
  BY <1>1, <1>4, OutcomeChanged, "session" \in Outcomes DEF IInv, Outcomes
<1>6. (Has("data")' <=> Has("data")) /\ (Has("data") => files'["data"] = files["data"])
  BY <1>1 DEF Moved, Has
<1>7. TypeInv'
  BY <1>1, <1>3, <1>4, <1>5 DEF IInv, TypeInv
<1>8. AckInv'
  BY <1>1, <1>4, <1>5 DEF AckInv
<1>9. DataInv'
  BY <1>1, <1>4, <1>5, <1>6 DEF IInv, DataInv
<1>10. QED
  BY <1>3, <1>7, <1>8, <1>9, EndOf

\* An error never leaves a data file of its own behind, except the error of the
\* last look at the finished table.
LEMMA CreateFailsStep ==
  ASSUME IInv, NEW c \in Clients, CreateFails(c)
  PROVE  IInv'
<1>1. PICK how \in {"unreported", "error"} :
        /\ op[c].at \in TablePoints \cup SessionPoints
        /\ how = "unreported" <=> op[c].at = "stat"
        /\ op' = [op EXCEPT ![c] = Idle] /\ outcome' = [outcome EXCEPT ![op[c].id] = how]
        /\ files' = IF op[c].at = "move_meta" THEN Without("data") ELSE files
        /\ UNCHANGED <<session, creates>>
  BY DEF CreateFails, LeftBy, At, Return, TablePoints, BeforeMove, SessionPoints
<1>2. op[c] # Idle
  BY <1>1 DEF Idle, TablePoints, BeforeMove, SessionPoints
<1>3. op' \in [Clients -> Stages] /\ OneInv' /\ \A d \in Clients : op'[d] = Idle
  BY <1>1, <1>2, EndFacts DEF IInv
<1>4. /\ op[c].id \in 1 .. creates
      /\ \A i \in 1 .. creates : outcome[i] # "ok"
      /\ op[c].at \notin {"move_meta", "stat"} => (Has("data") => files["data"] # op[c].id)
  BY <1>1 DEF IInv, ClientInv, CreateInv, WrittenInv, TablePoints, BeforeMove, SessionPoints
<1>5. /\ outcome' \in Seq(Outcomes) /\ Len(outcome') = creates
      /\ outcome'[op[c].id] = how
      /\ \A i \in 1 .. creates : i # op[c].id => outcome'[i] = outcome[i]
  BY <1>1, <1>4, OutcomeChanged, how \in Outcomes DEF IInv, Outcomes
<1>6. TypeInv'
  BY <1>1, <1>3, <1>5 DEF IInv, TypeInv
<1>7. AckInv'
  BY <1>1, <1>4, <1>5 DEF AckInv
<1>8. DataInv'
  <2>1. CASE op[c].at = "move_meta"
    BY <1>1, <2>1 DEF DataInv, Has, Without
  <2>2. CASE op[c].at = "stat"
    BY <1>1, <1>5, <2>2 DEF IInv, DataInv, Has, Sound
  <2>3. CASE op[c].at \notin {"move_meta", "stat"}
    BY <1>1, <1>4, <1>5, <2>3 DEF IInv, DataInv, Has
  <2>4. QED
    BY <2>1, <2>2, <2>3
<1>9. QED
  BY <1>3, <1>6, <1>7, <1>8, EndOf

-----------------------------------------------------------------------------
(* The steps of drop(), and the end of a process.                           *)

\* drop() removes the table that find() showed it.
LEMMA BeginDropStep ==
  ASSUME IInv, NEW c \in Clients, BeginDrop(c)
  PROVE  IInv'
<1>1. UNCHANGED <<files, session, creates, outcome>>
  BY DEF BeginDrop
<1>2. PICK r \in Stages :
        /\ op' = [op EXCEPT ![c] = r]
        /\ \/ r.at = "drop_session"
           \/ r.at = "drop_data" /\ r.id = files["data"] /\ Has("data")
  <2>1. CASE session[c] # None
    <3>1. [at |-> "drop_session", id |-> session[c]] \in Stages
      BY DEF IInv, TypeInv, Stages, Stops
    <3>2. QED
      BY <2>1, <3>1 DEF BeginDrop
  <2>2. CASE session[c] = None
    <3>1. Has("data")
      BY <2>2 DEF BeginDrop, Found, FoundPersistent
    <3>2. [at |-> "drop_data", id |-> files["data"]] \in Stages
      BY <3>1 DEF IInv, TypeInv, DataInv, Stages, Stops
    <3>3. QED
      BY <2>2, <3>1, <3>2 DEF BeginDrop
  <2>3. QED
    BY <2>1, <2>2
<1>3. op' \in [Clients -> Stages] /\ OneInv' /\ op'[c] = r
      /\ \A d \in Clients : d # c => op'[d] = Idle
  BY <1>2, OneAtWork DEF BeginDrop, IInv
<1>4. TypeInv' /\ DataInv' /\ AckInv'
  BY <1>1, <1>3 DEF IInv, TypeInv, DataInv, AckInv, Has
<1>5. ClientInv(c)'
  BY <1>1, <1>2, <1>3 DEF ClientInv, CreateInv, WrittenInv, DropInv, Has, TablePoints, BeforeMove, SessionPoints
<1>6. QED
  BY <1>3, <1>4, <1>5, StepOf

\* The data goes first, and with it the outcome of its create() becomes dropped.
LEMMA DropDataStep ==
  ASSUME IInv, NEW c \in Clients, DropData(c)
  PROVE  IInv'
<1>1. /\ op[c].at = "drop_data" /\ Go(c, "drop_meta")
      /\ files' = Without("data") /\ outcome' = [outcome EXCEPT ![op[c].id] = "dropped"]
      /\ UNCHANGED <<session, creates>>
  BY DEF DropData, At
<1>2. op[c] # Idle
  BY <1>1 DEF Idle
<1>3. /\ op' \in [Clients -> Stages]
      /\ OneInv'
      /\ op'[c].at = "drop_meta" /\ op'[c].id = op[c].id
      /\ \A d \in Clients : d # c => op'[d] = Idle
  BY <1>1, <1>2, GoFacts DEF IInv, Stops
<1>4. Has("data") /\ files["data"] = op[c].id /\ op[c].id \in 1 .. creates
  BY <1>1 DEF IInv, ClientInv, DropInv, DataInv
<1>5. /\ outcome' \in Seq(Outcomes) /\ Len(outcome') = creates
      /\ outcome'[op[c].id] = "dropped"
      /\ \A i \in 1 .. creates : i # op[c].id => outcome'[i] = outcome[i]
  BY <1>1, <1>4, OutcomeChanged, "dropped" \in Outcomes DEF IInv, Outcomes
<1>6. TypeInv'
  BY <1>1, <1>3, <1>5 DEF IInv, TypeInv
<1>7. ~Has("data")'
  BY <1>1 DEF Has, Without
<1>8. \A i \in 1 .. creates : outcome'[i] # "ok"
  BY <1>4, <1>5 DEF IInv, AckInv
<1>9. DataInv' /\ AckInv'
  BY <1>1, <1>7, <1>8 DEF DataInv, AckInv
<1>10. ClientInv(c)'
  BY <1>1, <1>3, <1>4, <1>7 DEF ClientInv, CreateInv, WrittenInv, DropInv, TablePoints, BeforeMove, SessionPoints
<1>11. QED
  BY <1>3, <1>6, <1>9, <1>10, StepOf

\* The metadata goes last.
LEMMA DropMetaStep ==
  ASSUME IInv, NEW c \in Clients, DropMeta(c)
  PROVE  IInv'
<1>1. /\ op[c].at = "drop_meta" /\ op' = [op EXCEPT ![c] = Idle]
      /\ files' = Without("meta") /\ outcome' = [outcome EXCEPT ![op[c].id] = "dropped"]
      /\ UNCHANGED <<session, creates>>
  BY DEF DropMeta, At, Return
<1>2. op[c] # Idle
  BY <1>1 DEF Idle
<1>3. op' \in [Clients -> Stages] /\ OneInv' /\ \A d \in Clients : op'[d] = Idle
  BY <1>1, <1>2, EndFacts DEF IInv
<1>4. ~Has("data") /\ op[c].id \in 1 .. creates
  BY <1>1 DEF IInv, ClientInv, DropInv
<1>5. /\ outcome' \in Seq(Outcomes) /\ Len(outcome') = creates
      /\ outcome'[op[c].id] = "dropped"
      /\ \A i \in 1 .. creates : i # op[c].id => outcome'[i] = outcome[i]
  BY <1>1, <1>4, OutcomeChanged, "dropped" \in Outcomes DEF IInv, Outcomes
<1>6. TypeInv'
  BY <1>1, <1>3, <1>5 DEF IInv, TypeInv
<1>7. ~Has("data")'
  BY <1>1, <1>4 DEF Has, Without
<1>8. DataInv' /\ AckInv'
  BY <1>1, <1>4, <1>5, <1>7 DEF IInv, DataInv, AckInv
<1>9. QED
  BY <1>3, <1>6, <1>8, EndOf

\* A step that ends a drop and leaves data and metadata alone.
LEMMA LeaveStep ==
  ASSUME IInv, NEW c \in Clients, op[c] # Idle, op' = [op EXCEPT ![c] = Idle],
         files' = files \/ files' = Without("session"),
         session' \in [Clients -> Nat], UNCHANGED <<creates, outcome>>
  PROVE  IInv'
<1>1. op' \in [Clients -> Stages] /\ OneInv' /\ \A d \in Clients : op'[d] = Idle
  BY EndFacts DEF IInv
<1>2. (Has("data")' <=> Has("data")) /\ (Has("data") => files'["data"] = files["data"])
      /\ (Has("meta")' <=> Has("meta"))
  BY DEF Has, Without
<1>3. TypeInv' /\ DataInv' /\ AckInv'
  BY <1>1, <1>2 DEF IInv, TypeInv, DataInv, AckInv
<1>4. QED
  BY <1>1, <1>3, EndOf

\* A step of a client that runs no statement, beside another one's.
LEMMA AsideStep ==
  ASSUME IInv, op' = op, files' = files \/ files' = Without("session"),
         session' \in [Clients -> Nat], UNCHANGED <<creates, outcome>>
  PROVE  IInv'
<1>1. (Has("data")' <=> Has("data")) /\ (Has("data") => files'["data"] = files["data"])
      /\ (Has("meta")' <=> Has("meta"))
  BY DEF Has, Without
<1>2. (Has("data.partial")' <=> Has("data.partial"))
      /\ (Has("data.partial") => files'["data.partial"] = files["data.partial"])
  BY DEF Has, Without
<1>3. TypeInv' /\ OneInv' /\ DataInv' /\ AckInv'
  BY <1>1 DEF IInv, TypeInv, OneInv, DataInv, AckInv
<1>4. ASSUME NEW d \in Clients PROVE ClientInv(d)'
  <2>1. ClientInv(d)
    BY DEF IInv
  <2>2. CreateInv(d)'
    BY <2>1 DEF ClientInv, CreateInv
  <2>3. WrittenInv(d)'
    BY <2>1, <1>1, <1>2 DEF ClientInv, WrittenInv
  <2>4. DropInv(d)'
    BY <2>1, <1>1 DEF ClientInv, DropInv
  <2>5. QED
    BY <2>2, <2>3, <2>4 DEF ClientInv
<1>5. QED
  BY <1>3, <1>4 DEF IInv

\* A process dies: its create() counts as crashed, and what it had moved stays.
LEMMA CrashStep ==
  ASSUME IInv, NEW c \in Clients, Crash(c)
  PROVE  IInv'
<1>1. /\ op' = [op EXCEPT ![c] = Idle] /\ session' = [session EXCEPT ![c] = None]
      /\ UNCHANGED <<files, creates>>
  BY DEF Crash, Forget
<1>2. session' \in [Clients -> Nat]
  BY <1>1 DEF IInv, TypeInv, None
<1>3. CASE op[c].id \in DOMAIN outcome /\ outcome[op[c].id] = "running"
  <2>1. outcome' = [outcome EXCEPT ![op[c].id] = "crashed"]
    BY <1>3 DEF Crash
  <2>2. op[c].id \in 1 .. creates /\ op[c] # Idle
    BY <1>3 DEF IInv, TypeInv, Idle, None
  <2>3. op' \in [Clients -> Stages] /\ OneInv' /\ \A d \in Clients : op'[d] = Idle
    BY <1>1, <2>2, EndFacts DEF IInv
  <2>4. /\ outcome' \in Seq(Outcomes) /\ Len(outcome') = creates
        /\ outcome'[op[c].id] = "crashed"
        /\ \A i \in 1 .. creates : i # op[c].id => outcome'[i] = outcome[i]
    BY <2>1, <2>2, OutcomeChanged, "crashed" \in Outcomes DEF IInv, Outcomes
  <2>5. TypeInv'
    BY <1>1, <1>2, <2>3, <2>4 DEF IInv, TypeInv
  <2>6. DataInv'
    BY <1>1, <2>4 DEF IInv, DataInv, Has, Sound
  <2>7. AckInv'
    BY <1>1, <2>4, <2>2 DEF IInv, AckInv, Has
  <2>8. QED
    BY <2>3, <2>5, <2>6, <2>7, EndOf
<1>4. CASE ~(op[c].id \in DOMAIN outcome /\ outcome[op[c].id] = "running")
  <2>1. outcome' = outcome
    BY <1>4 DEF Crash
  <2>2. CASE op[c] # Idle
    BY <1>1, <1>2, <2>1, <2>2, LeaveStep
  <2>3. CASE op[c] = Idle
    <3>1. op' = op
      BY <1>1, <2>3 DEF IInv, TypeInv
    <3>2. QED
      BY <1>1, <1>2, <2>1, <3>1, AsideStep
  <2>4. QED
    BY <2>2, <2>3
<1>5. QED
  BY <1>3, <1>4

-----------------------------------------------------------------------------
(* The theorem.                                                             *)

\* An empty directory.
LEMMA InitIInv == CatalogInit => IInv
<1>1. SUFFICES ASSUME CatalogInit PROVE IInv
  OBVIOUS
<1>2. Idle \in Stages
  BY DEF Idle, Stages, Stops, None
<1>3. TypeInv
  BY <1>1, <1>2 DEF CatalogInit, TypeInv, None
<1>4. OneInv
  BY <1>1 DEF CatalogInit, OneInv
<1>5. \A c \in Clients : ClientInv(c)
  BY <1>1, IdleClient DEF CatalogInit
<1>6. DataInv /\ AckInv
  BY <1>1 DEF CatalogInit, DataInv, AckInv, Has
<1>7. QED
  BY <1>3, <1>4, <1>5, <1>6 DEF IInv

\* Every step of the clients keeps the invariant.
LEMMA NextIInv == IInv /\ [CatalogNext]_catalogVars => IInv'
<1>1. SUFFICES ASSUME IInv, [CatalogNext]_catalogVars PROVE IInv'
  OBVIOUS
<1>2. ASSUME NEW c \in Clients, NEW first \in {"open_table", "open_session"}, BeginCreate(c, first)
      PROVE  IInv'
  BY <1>1, <1>2, BeginCreateStep
<1>3. ASSUME NEW c \in Clients, OpenData(c) PROVE IInv'
  BY <1>1, <1>3, WriteStep DEF OpenData, Step, At, Stops
<1>4. ASSUME NEW c \in Clients, WriteData(c) PROVE IInv'
  BY <1>1, <1>4, WriteStep DEF WriteData, Step, At, Stops
<1>5. ASSUME NEW c \in Clients, WriteMeta(c) PROVE IInv'
  BY <1>1, <1>5, WriteStep DEF WriteMeta, Step, At, Stops
<1>6. ASSUME NEW c \in Clients, MoveData(c) PROVE IInv'
  BY <1>1, <1>6, MoveDataStep
<1>7. ASSUME NEW c \in Clients, MoveMeta(c) PROVE IInv'
  BY <1>1, <1>7, MoveMetaStep
<1>8. ASSUME NEW c \in Clients, Created(c) PROVE IInv'
  BY <1>1, <1>8, CreatedStep
<1>9. ASSUME NEW c \in Clients, OpenSession(c) PROVE IInv'
  BY <1>1, <1>9, WriteStep DEF OpenSession, Step, At, Stops
<1>10. ASSUME NEW c \in Clients, WriteSession(c) PROVE IInv'
  BY <1>1, <1>10, WriteStep DEF WriteSession, Step, At, Stops
<1>11. ASSUME NEW c \in Clients, MoveSession(c) PROVE IInv'
  BY <1>1, <1>11, MoveSessionStep
<1>12. ASSUME NEW c \in Clients, CreateFails(c) PROVE IInv'
  BY <1>1, <1>12, CreateFailsStep
<1>13. ASSUME NEW c \in Clients, BeginDrop(c) PROVE IInv'
  BY <1>1, <1>13, BeginDropStep
<1>14. ASSUME NEW c \in Clients, DropData(c) PROVE IInv'
  BY <1>1, <1>14, DropDataStep
<1>15. ASSUME NEW c \in Clients, DropMeta(c) PROVE IInv'
  BY <1>1, <1>15, DropMetaStep
<1>16. ASSUME NEW c \in Clients, DropFails(c) PROVE IInv'
  <2>1. op[c] # Idle
    BY <1>16 DEF DropFails, Idle
  <2>2. op' = [op EXCEPT ![c] = Idle] /\ UNCHANGED <<files, session, creates, outcome>>
    BY <1>16 DEF DropFails
  <2>3. QED
    BY <1>1, <2>1, <2>2, LeaveStep DEF IInv, TypeInv
<1>17. ASSUME NEW c \in Clients, DropSession(c) PROVE IInv'
  <2>1. op[c] # Idle
    BY <1>17 DEF DropSession, At, Idle
  <2>2. op' = [op EXCEPT ![c] = Idle] /\ UNCHANGED <<creates, outcome>>
    BY <1>17 DEF DropSession
  <2>3. session' \in [Clients -> Nat] /\ (files' = files \/ files' = Without("session"))
    <3>1. CASE Has("session")
      BY <1>1, <1>17, <3>1 DEF DropSession, Forget, IInv, TypeInv, None
    <3>2. CASE ~Has("session")
      BY <1>1, <1>17, <3>2 DEF DropSession, IInv, TypeInv
    <3>3. QED
      BY <3>1, <3>2
  <2>4. QED
    BY <1>1, <2>1, <2>2, <2>3, LeaveStep
<1>18. ASSUME NEW c \in Clients, Exit(c) PROVE IInv'
  <2>1. op' = op /\ files' = Without("session") /\ UNCHANGED <<creates, outcome>>
    BY <1>18 DEF Exit
  <2>2. session' \in [Clients -> Nat]
    BY <1>1, <1>18 DEF Exit, Forget, IInv, TypeInv, None
  <2>3. QED
    BY <1>1, <2>1, <2>2, AsideStep
<1>19. ASSUME NEW c \in Clients, Crash(c) PROVE IInv'
  BY <1>1, <1>19, CrashStep
<1>20. CASE UNCHANGED catalogVars
  BY <1>1, <1>20, AsideStep DEF catalogVars, IInv, TypeInv
<1>21. QED
  BY <1>1, <1>2, <1>3, <1>4, <1>5, <1>6, <1>7, <1>8, <1>9, <1>10, <1>11, <1>12, <1>13,
     <1>14, <1>15, <1>16, <1>17, <1>18, <1>19, <1>20 DEF CatalogNext

\* The invariant says what find() may show.
LEMMA IInvSound == IInv => PersistentTablesSound
<1>1. SUFFICES ASSUME IInv PROVE PersistentTablesSound
  OBVIOUS
<1>2. DOMAIN outcome = 1 .. creates
  BY <1>1 DEF IInv, TypeInv
<1>3. Has("data") => files["data"] # Torn
  BY <1>1 DEF IInv, TypeInv, DataInv, Torn
<1>4. \A i \in DOMAIN outcome : outcome[i] = "ok" => FoundPersistent /\ files["data"] = i
  BY <1>1, <1>2, <1>3 DEF IInv, AckInv, FoundPersistent
<1>5. FoundPersistent => outcome[files["data"]] \in {"ok", "running", "crashed", "unreported"}
  BY <1>1 DEF IInv, DataInv, FoundPersistent, Sound
<1>6. QED
  BY <1>4, <1>5 DEF PersistentTablesSound

\* QueryTableCatalog: whatever file operation fails and whenever a process dies,
\* an acknowledged persistent table is found, with the contents of its own
\* create(), until a drop() of it removes its data; and what find() shows is the
\* work of one create() that reported no error.  For any number of processes,
\* statements, failures and crashes.
THEOREM TablesStaySound == CatalogSpec => []PersistentTablesSound
<1>1. CatalogInit => IInv
  BY InitIInv
<1>2. IInv /\ [CatalogNext]_catalogVars => IInv'
  BY NextIInv
<1>3. IInv => PersistentTablesSound
  BY IInvSound
<1>4. QED
  BY <1>1, <1>2, <1>3, PTL DEF CatalogSpec

-----------------------------------------------------------------------------
(* Scans. *)

\* A scan has shards, its pool connections, and a limit or none.
ScanBounds ==
  /\ NumShards \in Nat \ {0}
  /\ \A s \in Scans : s.conns \in Nat \ {0} /\ s.parallel \in Nat

\* The points of a shard, and those at which it holds a connection.
Holding == {"reading", "ready", "end", "held"}
ShardPoints == Holding \cup {"waiting", "opening", "error", "gone"}
Flight == {s \in Shards : groups[s].at \in Holding}

\* Types, and that the limit is within the pool.
ScanTypes ==
  /\ Limit \in 1 .. NumShards /\ Limit <= scan.conns /\ scan.conns \in Nat
  /\ DOMAIN groups = Shards
  /\ \A s \in Shards :
       /\ groups[s] = [at |-> groups[s].at, left |-> groups[s].left, page |-> groups[s].page]
       /\ groups[s].at \in ShardPoints
  /\ current \in 1 .. NumShards + 1 /\ unstarted \in 1 .. NumShards + 1

\* Shards before the current one are gone, those from next_group_to_start_ on
\* have no task, and between them are no more than the limit.
FlightInv ==
  /\ current <= unstarted /\ unstarted - current <= Limit
  /\ \A s \in Shards : s < current => groups[s].at = "gone"
  /\ \A s \in Shards : s >= unstarted => groups[s].at = "waiting"

\* next() waits for a shard there is, and a destroyed stream has none.
CallerInv ==
  /\ caller = "get" => current \in Shards
  /\ caller = "gone" => \A s \in Shards : groups[s].at \in {"waiting", "gone"}

ScanInv == ScanTypes /\ FlightInv /\ CallerInv

\* The limit only depends on the scan.
LEMMA LimitFixed == scan' = scan => Limit' = Limit
BY DEF Limit

\* limit_ is at least one and never more than the pool has connections.
LEMMA LimitInPool ==
  ASSUME ScanBounds, ScanInit
  PROVE  Limit \in 1 .. NumShards /\ Limit <= scan.conns /\ scan.conns \in Nat \ {0}
<1>1. PICK s \in Scans :
        scan = [kind |-> s.kind, raw |-> s.raw, windows |-> NormalizedWindows(s.raw),
                slice |-> s.slice, size |-> s.size, conns |-> s.conns, parallel |-> s.parallel]
  BY DEF ScanInit
<1>2. scan.conns \in Nat \ {0} /\ scan.parallel \in Nat
  BY <1>1 DEF ScanBounds
<1> QED
  BY <1>2 DEF Limit, Least, ScanBounds

\* The shards of a slice just prepared.
LEMMA PreparedShards ==
  ASSUME NEW x
  PROVE  \A s \in Shards : Prepared(x)[s] = IF s <= Limit THEN Opening(x) ELSE Waiting
BY DEF Prepared

\* A shard that changes only its point.
LEMMA ShardMoves ==
  ASSUME ScanTypes, FlightInv, NEW s \in Shards, groups[s].at \notin {"waiting", "gone"},
         NEW p \in ShardPoints \ {"waiting"}, NEW r, r.at = p,
         r = [at |-> r.at, left |-> r.left, page |-> r.page],
         groups' = [groups EXCEPT ![s] = r],
         UNCHANGED <<scan, current, unstarted>>
  PROVE  ScanTypes' /\ FlightInv'
<1>1. Shards' = Shards /\ Limit' = Limit
  BY LimitFixed DEF Shards
<1>2. /\ DOMAIN groups' = Shards /\ groups'[s] = r
      /\ \A q \in Shards : q # s => groups'[q] = groups[q]
  BY DEF ScanTypes
<1>3. ScanTypes'
  BY <1>1, <1>2 DEF ScanTypes
<1>4. FlightInv'
  BY <1>1, <1>2 DEF FlightInv
<1> QED
  BY <1>3, <1>4

\* The first slice.
LEMMA ScanInitHolds == ASSUME ScanBounds, ScanInit PROVE ScanInv
<1>1. Limit \in 1 .. NumShards /\ Limit <= scan.conns /\ scan.conns \in Nat \ {0} /\ NumShards \in Nat
  BY LimitInPool DEF ScanBounds
<1>2. /\ groups = Prepared(slice) /\ DOMAIN groups = Shards
      /\ current = 1 /\ unstarted = Limit + 1 /\ caller = "idle"
  BY DEF ScanInit, Prepared
<1>3. \A s \in Shards : groups[s] = IF s <= Limit THEN Opening(slice) ELSE Waiting
  BY <1>2, PreparedShards
<1>4. ScanTypes
  BY <1>1, <1>2, <1>3 DEF ScanTypes, Opening, Waiting, ShardPoints, Holding
<1>5. FlightInv
  BY <1>1, <1>2, <1>3 DEF FlightInv, Opening, Waiting, Shards
<1> QED
  BY <1>2, <1>4, <1>5 DEF ScanInv, CallerInv

\* A task, or the destructor, moves one shard.
LEMMA TaskStep ==
  ASSUME ScanInv, NEW s \in Shards, Acquire(s) \/ Pull(s) \/ PullFails(s) \/ Drain(s)
  PROVE  ScanInv'
<1>t. ScanTypes /\ FlightInv /\ CallerInv
  BY DEF ScanInv
<1>0. /\ groups[s] = [at |-> groups[s].at, left |-> groups[s].left, page |-> groups[s].page]
      /\ DOMAIN groups = Shards
  BY <1>t DEF ScanTypes
<1>1. UNCHANGED <<scan, current, unstarted, caller>>
  BY DEF Acquire, Pull, PullFails, Drain
<1>2. groups[s].at \notin {"waiting", "gone"}
  BY DEF Acquire, Pull, PullFails, Drain, Undrained
<1>3. PICK r : /\ groups' = [groups EXCEPT ![s] = r]
               /\ r.at \in ShardPoints \ {"waiting"}
               /\ r = [at |-> r.at, left |-> r.left, page |-> r.page]
  <2>1. ASSUME NEW p \in {"reading", "end", "error"}, SetShard(s, p)
        PROVE  \E r : /\ groups' = [groups EXCEPT ![s] = r]
                      /\ r.at \in ShardPoints \ {"waiting"}
                      /\ r = [at |-> r.at, left |-> r.left, page |-> r.page]
    <3>1. groups' = [groups EXCEPT ![s] = [groups[s] EXCEPT !.at = p]]
      BY <2>1 DEF SetShard
    <3>2. [groups[s] EXCEPT !.at = p] = [at |-> p, left |-> groups[s].left, page |-> groups[s].page]
      BY <1>0
    <3> WITNESS [at |-> p, left |-> groups[s].left, page |-> groups[s].page]
    <3> QED
      BY <3>1, <3>2 DEF ShardPoints, Holding
  <2>2. CASE Acquire(s)
    BY <2>1, <2>2 DEF Acquire
  <2>3. CASE PullFails(s)
    BY <2>1, <2>3 DEF PullFails
  <2>4. CASE Drain(s)
    <3>1. groups' = [groups EXCEPT ![s] = [at |-> "gone", left |-> <<>>, page |-> <<>>]]
      BY <2>4 DEF Drain, Gone
    <3> WITNESS [at |-> "gone", left |-> <<>>, page |-> <<>>]
    <3> QED
      BY <3>1 DEF ShardPoints, Holding
  <2>5. CASE Pull(s)
    <3>1. CASE SetShard(s, "end")
      BY <2>1, <3>1
    <3>2. CASE groups' = [groups EXCEPT ![s] = [at |-> "ready", left |-> Tail(@.left), page |-> Head(@.left)]]
      <4>1. groups' = [groups EXCEPT ![s] = [at |-> "ready", left |-> Tail(groups[s].left), page |-> Head(groups[s].left)]]
        BY <1>0, <3>2
      <4> WITNESS [at |-> "ready", left |-> Tail(groups[s].left), page |-> Head(groups[s].left)]
      <4> QED
        BY <4>1 DEF ShardPoints, Holding
    <3> QED
      BY <2>5, <3>1, <3>2 DEF Pull
  <2> QED
    BY <2>2, <2>3, <2>4, <2>5
<1>4. ScanTypes' /\ FlightInv'
  BY <1>t, <1>1, <1>2, <1>3, ShardMoves
<1>5. CallerInv'
  BY <1>t, <1>1, <1>2 DEF CallerInv
<1> QED
  BY <1>4, <1>5 DEF ScanInv

\* next() takes a page, or schedules the next pull of the current shard.
LEMMA PageStep ==
  ASSUME ScanBounds, ScanInv, ScheduleNext \/ GetBatch
  PROVE  ScanInv'
<1>t. ScanTypes /\ FlightInv /\ CallerInv
  BY DEF ScanInv
<1>1. UNCHANGED <<scan, current, unstarted>> /\ caller' \in {"get", "idle"}
  BY DEF ScheduleNext, GetBatch
<1>2. current \in Shards
  BY <1>t DEF ScanBounds, ScheduleNext, GetBatch, CallerInv, ScanTypes, AtEnd, Shards
<1>3. CallerInv'
  BY <1>1, <1>2 DEF CallerInv, Shards
<1>4. groups[current] = [at |-> groups[current].at, left |-> groups[current].left, page |-> groups[current].page]
  BY <1>t, <1>2 DEF ScanTypes
<1>5. CASE GetBatch
  <2>1. groups[current].at = "ready"
    BY <1>5 DEF GetBatch
  <2>2. groups' = [groups EXCEPT ![current] = [at |-> "held", left |-> groups[current].left, page |-> <<>>]]
    BY <1>5 DEF GetBatch
  <2> QED
    BY <1>t, <1>1, <1>2, <1>3, <2>1, <2>2, ShardMoves DEF ScanInv, ShardPoints, Holding
<1>6. CASE ScheduleNext /\ groups[current].at = "held"
  <2>1. groups' = [groups EXCEPT ![current] = [groups[current] EXCEPT !.at = "reading"]]
    BY <1>6 DEF ScheduleNext, SetShard
  <2>2. [groups[current] EXCEPT !.at = "reading"]
          = [at |-> "reading", left |-> groups[current].left, page |-> groups[current].page]
    BY <1>4
  <2> QED
    BY <1>t, <1>1, <1>2, <1>3, <1>6, <2>1, <2>2, ShardMoves DEF ScanInv, ShardPoints, Holding
<1>7. CASE ScheduleNext /\ groups[current].at # "held"
  <2>1. UNCHANGED groups
    BY <1>7 DEF ScheduleNext
  <2> QED
    BY <1>t, <1>1, <1>3, <2>1, LimitFixed DEF ScanInv, ScanTypes, FlightInv, Shards
<1> QED
  BY <1>5, <1>6, <1>7

\* The end of a shard: the next one is started, or the next slice prepared.
LEMMA EndStep ==
  ASSUME ScanInv, ScanBounds, GetEnd
  PROVE  ScanInv'
<1>t. ScanTypes /\ FlightInv /\ CallerInv
  BY DEF ScanInv
<1>1. scan' = scan /\ caller' = "loop" /\ caller = "get" /\ current \in Shards
  BY <1>t DEF GetEnd, CallerInv
<1>2. Limit' = Limit /\ Shards' = Shards /\ CallerInv'
  BY <1>1, LimitFixed DEF Shards, CallerInv
<1>3. NumShards \in Nat \ {0} /\ Limit \in 1 .. NumShards
  BY <1>t DEF ScanBounds, ScanTypes
<1>4. CASE groups' = Prepared(slice') /\ current' = 1 /\ unstarted' = Limit + 1
  <2>1. DOMAIN groups' = Shards /\ \A s \in Shards : groups'[s] = IF s <= Limit THEN Opening(slice') ELSE Waiting
    <3>1. DOMAIN Prepared(slice') = Shards
      BY DEF Prepared
    <3> QED
      BY <1>4, <3>1, PreparedShards
  <2>3. \A s \in Shards : groups'[s] \in {[at |-> "opening", left |-> Pages(slice'.begin, slice'.end), page |-> <<>>],
                                          [at |-> "waiting", left |-> <<>>, page |-> <<>>]}
    BY <2>1 DEF Opening, Waiting
  <2>4. ScanTypes'
    BY <1>t, <1>1, <1>2, <1>3, <1>4, <2>1, <2>3 DEF ScanTypes, ShardPoints, Holding
  <2>5. FlightInv'
    BY <1>2, <1>3, <1>4, <2>1 DEF FlightInv, Opening, Waiting, Shards
  <2> QED
    BY <1>2, <2>4, <2>5 DEF ScanInv
<1>5. CASE /\ current' = current + 1
           /\ groups' = [i \in Shards |-> IF i = current THEN Gone
                                          ELSE IF i = unstarted THEN Opening(slice) ELSE groups[i]]
           /\ unstarted' = Least(unstarted + 1, NumShards + 1)
  <2>1. \A s \in Shards : groups'[s] = IF s = current THEN Gone
                                       ELSE IF s = unstarted THEN Opening(slice) ELSE groups[s]
    BY <1>5
  <2>2. DOMAIN groups' = Shards
    BY <1>5
  <2>3. current \in Nat \ {0} /\ unstarted \in Nat /\ current <= NumShards /\ unstarted <= NumShards + 1
    BY <1>t, <1>1, <1>3 DEF ScanTypes, Shards
  <2>4. /\ unstarted' \in Nat /\ unstarted' <= unstarted + 1 /\ unstarted' <= NumShards + 1
        /\ unstarted' = unstarted + 1 \/ unstarted' = NumShards + 1
    BY <1>3, <1>5, <2>3 DEF Least
  <2>5. ScanTypes'
    <3>1. \A s \in Shards :
            /\ groups'[s] = [at |-> groups'[s].at, left |-> groups'[s].left, page |-> groups'[s].page]
            /\ groups'[s].at \in ShardPoints
      BY <1>t, <2>1 DEF ScanTypes, Gone, Opening, ShardPoints, Holding
    <3> QED
      BY <1>t, <1>1, <1>2, <1>3, <1>5, <2>2, <2>3, <2>4, <3>1 DEF ScanTypes
  <2>6. groups[current].at = "end"
    BY DEF GetEnd
  <2>7. current < unstarted
    BY <1>t, <1>1, <2>3, <2>6 DEF FlightInv
  <2>8. FlightInv'
    <3>1. current' <= unstarted' /\ unstarted' - current' <= Limit
      BY <1>t, <1>3, <1>5, <2>3, <2>4, <2>7 DEF FlightInv
    <3>2. ASSUME NEW s \in Shards, s < current'
          PROVE  groups'[s].at = "gone"
      <4>1. s < current \/ s = current
        BY <1>5, <2>3, <3>2 DEF Shards
      <4> QED
        BY <1>t, <2>1, <2>3, <2>7, <4>1 DEF FlightInv, Gone, Shards
    <3>3. ASSUME NEW s \in Shards, s >= unstarted'
          PROVE  groups'[s].at = "waiting"
      <4>1. s \in Nat /\ s <= NumShards
        BY <1>3 DEF Shards
      <4>2. s > unstarted
        BY <1>3, <2>3, <2>4, <3>3, <4>1
      <4>3. s # current /\ s # unstarted /\ s >= unstarted
        BY <2>3, <2>7, <4>1, <4>2
      <4> QED
        BY <1>t, <2>1, <4>3 DEF FlightInv
    <3> QED
      BY <1>2, <3>1, <3>2, <3>3 DEF FlightInv
  <2> QED
    BY <1>2, <2>5, <2>8 DEF ScanInv
<1> QED
  BY <1>4, <1>5 DEF GetEnd

\* The other steps change the caller, or ask for cancellation.
LEMMA CallerStep ==
  ASSUME ScanInv,
         \/ Exhausted \/ ThrowIfCancelled \/ GetError \/ Close \/ Drained \/ RequestCancel
         \/ UNCHANGED scanVars
  PROVE  ScanInv'
<1>t. ScanTypes /\ FlightInv /\ CallerInv
  BY DEF ScanInv
<1>1. UNCHANGED <<scan, groups, current, unstarted>>
  BY DEF Exhausted, ThrowIfCancelled, GetError, Close, Drained, RequestCancel, scanVars
<1>2. ScanTypes' /\ FlightInv'
  BY <1>t, <1>1, LimitFixed DEF ScanTypes, FlightInv, Shards
<1>3. \/ caller' = caller
      \/ caller' \in {"done", "draining"}
      \/ caller' = "gone" /\ Undrained = {}
  BY DEF Exhausted, ThrowIfCancelled, GetError, Close, Drained, RequestCancel, scanVars
<1>4. CallerInv'
  BY <1>t, <1>1, <1>3 DEF CallerInv, Undrained, Shards
<1> QED
  BY <1>2, <1>4 DEF ScanInv

\* A shard in flight that has no connection leaves one for itself.
LEMMA RoomForOne ==
  ASSUME ScanInv, NEW s \in Shards, groups[s].at = "opening", ScanBounds
  PROVE  InUse < scan.conns
<1>t. ScanTypes /\ FlightInv
  BY DEF ScanInv
<1>1. /\ NumShards \in Nat /\ Limit \in Nat /\ Limit <= scan.conns /\ scan.conns \in Nat
      /\ current \in Nat \ {0} /\ unstarted \in Nat /\ unstarted - current <= Limit /\ current <= unstarted
  BY <1>t DEF ScanTypes, FlightInv, ScanBounds
<1> PICK F : F = current .. (unstarted - 1)
  OBVIOUS
<1>2. Flight \subseteq F /\ s \in F /\ s \notin Flight
  BY <1>t, <1>1 DEF FlightInv, Flight, Shards, Holding
<1>3. IsFiniteSet(F) /\ Cardinality(F) = unstarted - current
  <2>1. current \in Int /\ unstarted - 1 \in Int
    BY <1>1
  <2>2. IsFiniteSet(F) /\ Cardinality(F) = IF current > unstarted - 1 THEN 0 ELSE unstarted - 1 - current + 1
    BY <2>1, FS_Interval
  <2> QED
    BY <1>1, <2>2
<1>4. IsFiniteSet(F \ {s}) /\ Cardinality(F \ {s}) = Cardinality(F) - 1
  BY <1>2, <1>3, FS_RemoveElement
<1>5. Cardinality(Flight) <= Cardinality(F \ {s}) /\ Cardinality(Flight) \in Nat
  <2>1. Flight \subseteq F \ {s}
    BY <1>2
  <2> QED
    BY <1>4, <2>1, FS_Subset, FS_CardinalityType
<1>6. InUse = Cardinality(Flight)
  BY DEF InUse, Flight, Holding
<1> QED
  BY <1>1, <1>3, <1>4, <1>5, <1>6

\* The invariant gives the property.
LEMMA ScanInvSuffices == ASSUME ScanBounds, ScanInv PROVE ScanNeverStarves
<1>1. ASSUME NEW s, s \in (IF caller = "get" THEN {current}
                            ELSE IF caller = "draining" THEN {q \in Undrained : \A r \in Undrained : q <= r}
                            ELSE {}),
             groups[s].at = "opening"
      PROVE  InUse < scan.conns
  <2>1. s \in Shards
    BY <1>1 DEF ScanInv, CallerInv, Undrained
  <2> QED
    BY <1>1, <2>1, RoomForOne
<1>2. ASSUME caller = "gone"
      PROVE  InUse = 0
  <2>1. Flight = {}
    BY <1>2 DEF ScanInv, CallerInv, Flight, Holding
  <2> QED
    BY <2>1, FS_EmptySet DEF InUse, Flight, Holding
<1> QED
  BY <1>1, <1>2 DEF ScanNeverStarves

\* next() and the destructor of a scan never wait for a shard that the other
\* shards of the scan keep from its connection, for every number of shards,
\* every pool and parallel limit, every windows and slices, whatever fails or is
\* cancelled: limit_ bounds the shards in flight by the pool.
THEOREM ScansNeverStarve == ASSUME ScanBounds PROVE ScanSpec => []ScanNeverStarves
<1>1. ScanInit => ScanInv
  BY ScanInitHolds
<1>2. ScanInv /\ [ScanNext]_scanVars => ScanInv'
  <2> SUFFICES ASSUME ScanInv, [ScanNext]_scanVars
               PROVE  ScanInv'
    OBVIOUS
  <2>1. CASE \E s \in Shards : Acquire(s) \/ Pull(s) \/ PullFails(s) \/ Drain(s)
    BY <2>1, TaskStep
  <2>2. CASE ScheduleNext \/ GetBatch
    BY <2>2, PageStep
  <2>3. CASE GetEnd
    BY <2>3, EndStep
  <2>4. CASE \/ Exhausted \/ ThrowIfCancelled \/ GetError \/ Close \/ Drained \/ RequestCancel
             \/ UNCHANGED scanVars
    BY <2>4, CallerStep
  <2> QED
    BY <2>1, <2>2, <2>3, <2>4 DEF ScanNext
<1>3. ScanInv => ScanNeverStarves
  BY ScanInvSuffices
<1> QED
  BY <1>1, <1>2, <1>3, PTL DEF ScanSpec

-----------------------------------------------------------------------------
(* Induction over numbers, and folds over sequences. *)

\* Every non-empty set of naturals has a least element.
LEMMA LeastNat ==
  ASSUME NEW T, T \subseteq Nat, T # {}
  PROVE  \E x \in T : \A y \in T : x <= y
<1>1. PICK R : R = OpToRel(<, Nat)
  OBVIOUS
<1>2. IsWellFoundedOn(R, Nat)
  BY <1>1, NatLessThanWellFounded
<1>3. PICK x \in T : \A y \in T : ~(<<y, x>> \in R)
  BY <1>2, WFMin
<1>4. \A y \in Nat : y < x => <<y, x>> \in R
  BY <1>1 DEF OpToRel
<1>5. \A y \in T : ~(y < x)
  BY <1>3, <1>4
<1>6. \A y \in T : x <= y
  BY <1>5
<1> QED
  BY <1>6

\* A set with 0 and with the successor of each of its naturals has all of them.
LEMMA SetInduction ==
  ASSUME NEW S, 0 \in S, \A n \in Nat : n \in S => n + 1 \in S
  PROVE  Nat \subseteq S
<1> SUFFICES ASSUME ~(Nat \subseteq S) PROVE FALSE
  OBVIOUS
<1>1. PICK T : T = Nat \ S
  OBVIOUS
<1>2. T \subseteq Nat /\ T # {}
  BY <1>1
<1>3. PICK x \in T : \A y \in T : x <= y
  BY <1>2, LeastNat
<1>4. x # 0 /\ x \in Nat /\ x \notin S
  BY <1>1
<1>5. x - 1 \in Nat /\ x - 1 \notin T
  BY <1>3, <1>4
<1> QED
  BY <1>1, <1>4, <1>5

\* The largest of 1 .. n and of its subsets.
LEMMA MaxUpTo ==
  ASSUME NEW n \in Nat, NEW s \in SUBSET (1 .. n + 1), n + 1 \in s
  PROVE  Max(s) = n + 1 /\ s \ {Max(s)} \in SUBSET (1 .. n)
<1>1. \E x \in s : \A y \in s : x >= y
  OBVIOUS
<1>2. Max(s) \in s /\ \A y \in s : Max(s) >= y
  BY <1>1 DEF Max
<1>3. Max(s) = n + 1
  <2>1. PICK x : x = Max(s)
    OBVIOUS
  <2>2. x \in 1 .. n + 1 /\ x >= n + 1
    BY <1>2, <2>1
  <2> QED
    BY <2>1, <2>2
<1>4. \A x \in s : x # n + 1 => x \in 1 .. n
  OBVIOUS
<1> QED
  BY <1>3, <1>4

\* A sequence of a set's elements, each once, has all of them.
LEMMA ListedAll ==
  ASSUME NEW S, IsFiniteSet(S), NEW s \in SetToSeqs(S)
  PROVE  /\ Cardinality(S) \in Nat /\ s \in Seq(S) /\ DOMAIN s = 1 .. Cardinality(S)
         /\ Len(s) = Cardinality(S)
         /\ \A x \in S : \E i \in DOMAIN s : s[i] = x
         /\ \A i, j \in DOMAIN s : s[i] = s[j] => i = j
<1>1. PICK n : n = Cardinality(S)  OBVIOUS
<1>2. n \in Nat  BY <1>1, FS_CardinalityType
<1>3. s \in [1 .. n -> S] /\ \A i, j \in 1 .. n : i # j => s[i] # s[j]
  BY <1>1 DEF SetToSeqs
<1>4. s \in Injection(1 .. n, S)  BY <1>3 DEF Injection, IsInjective
<1>5. IsFiniteSet(1 .. n) /\ Cardinality(1 .. n) = n  BY <1>2, FS_Interval
<1>6. s \in Surjection(1 .. n, S)  BY <1>1, <1>4, <1>5, FS_Injection
<1>7. \A x \in S : \E i \in 1 .. n : s[i] = x  BY <1>6 DEF Surjection
<1>8. s \in Seq(S) /\ DOMAIN s = 1 .. n /\ Len(s) = n  BY <1>2, <1>3
<1> QED  BY <1>1, <1>2, <1>3, <1>7, <1>8

\* g folds Coalesce over the windows at every set of places among the first n.
Coalescing(raws, n, g) ==
  g = [s \in SUBSET (1 .. n) |->
         IF s = {} THEN <<>> ELSE Coalesce(g[s \ {Max(s)}], raws[Max(s)])]

\* It exists up to every place.
LEMMA CoalescingExists ==
  ASSUME NEW raws, NEW n \in Nat
  PROVE  \E g : Coalescing(raws, n, g)
<1>1. PICK S : S = {m \in Nat : \E g : Coalescing(raws, m, g)}
  OBVIOUS
<1>2. 0 \in S
  <2>1. PICK g : g = [s \in SUBSET (1 .. 0) |-> <<>>]
    OBVIOUS
  <2>2. \A s \in SUBSET (1 .. 0) : s = {}
    OBVIOUS
  <2>3. Coalescing(raws, 0, g)
    BY <2>1, <2>2 DEF Coalescing
  <2> QED
    BY <1>1, <2>3
<1>3. ASSUME NEW m \in Nat, m \in S PROVE m + 1 \in S
  <2>1. PICK g : Coalescing(raws, m, g)
    BY <1>1, <1>3
  <2>2. PICK h : h = [s \in SUBSET (1 .. m + 1) |->
                        IF m + 1 \in s THEN Coalesce(g[s \ {m + 1}], raws[m + 1]) ELSE g[s]]
    OBVIOUS
  <2>3. \A s \in SUBSET (1 .. m) : s \in SUBSET (1 .. m + 1) /\ m + 1 \notin s
    OBVIOUS
  <2>4. \A s \in SUBSET (1 .. m) : h[s] = g[s]
    BY <2>2, <2>3
  <2>5. \A s \in SUBSET (1 .. m) :
          g[s] = IF s = {} THEN <<>> ELSE Coalesce(g[s \ {Max(s)}], raws[Max(s)])
    BY <2>1 DEF Coalescing
  <2>6. ASSUME NEW s \in SUBSET (1 .. m + 1)
        PROVE  h[s] = IF s = {} THEN <<>> ELSE Coalesce(h[s \ {Max(s)}], raws[Max(s)])
    <3>1. CASE m + 1 \in s
      <4>1. Max(s) = m + 1 /\ s \ {m + 1} \in SUBSET (1 .. m)
        BY <3>1, MaxUpTo
      <4>2. h[s] = Coalesce(g[s \ {m + 1}], raws[m + 1])
        BY <2>2, <3>1
      <4> QED
        BY <2>4, <3>1, <4>1, <4>2
    <3>2. CASE m + 1 \notin s
      <4>1. s \in SUBSET (1 .. m) /\ s \ {Max(s)} \in SUBSET (1 .. m)
        <5>1. \A x \in s : x \in 1 .. m
          BY <3>2
        <5> QED
          BY <5>1
      <4> QED
        BY <2>4, <2>5, <4>1
    <3> QED
      BY <3>1, <3>2
  <2>7. h = [s \in SUBSET (1 .. m + 1) |->
               IF s = {} THEN <<>> ELSE Coalesce(h[s \ {Max(s)}], raws[Max(s)])]
    BY <2>2, <2>6
  <2>8. Coalescing(raws, m + 1, h)
    BY <2>7 DEF Coalescing
  <2> QED
    BY <1>1, <2>8
<1> QED
  BY <1>1, <1>2, <1>3, SetInduction

\* acc[k] are the windows made of the first k of n.
Joins(acc, raws, n) ==
  /\ acc[0] = <<>>
  /\ \A k \in 1 .. n : acc[k] = Coalesce(acc[k - 1], raws[k])
  /\ acc[n] = FoldLeft(Coalesce, <<>>, raws)

\* extractNormalizedWindows() takes the sorted windows one after the other.
LEMMA WindowsUnfold ==
  ASSUME NEW raws, NEW n \in Nat, DOMAIN raws = 1 .. n
  PROVE  \E acc : Joins(acc, raws, n)
<1>1. PICK g : g = CHOOSE f : f = [s \in SUBSET (1 .. n) |->
                 IF s = {} THEN <<>> ELSE Coalesce(f[s \ {Max(s)}], raws[Max(s)])]
  OBVIOUS
<1>2. FoldLeft(Coalesce, <<>>, raws) = g[1 .. n]
  BY <1>1 DEF FoldLeft, MapThenFoldSet
<1>3. Coalescing(raws, n, g)
  <2>0. PICK h : Coalescing(raws, n, h)
    BY CoalescingExists
  <2>1. h = [s \in SUBSET (1 .. n) |->
                 IF s = {} THEN <<>> ELSE Coalesce(h[s \ {Max(s)}], raws[Max(s)])]
    BY <2>0 DEF Coalescing
  <2>2. g = [s \in SUBSET (1 .. n) |->
                 IF s = {} THEN <<>> ELSE Coalesce(g[s \ {Max(s)}], raws[Max(s)])]
    BY <1>1, <2>1, Zenon
  <2> QED
    BY <2>2 DEF Coalescing
<1>4. PICK acc : acc = [k \in 0 .. n |-> g[1 .. k]]
  OBVIOUS
<1>5. acc[0] = <<>>
  <2>1. 1 .. 0 = {} /\ {} \in SUBSET (1 .. n)
    OBVIOUS
  <2>2. g[{}] = <<>>
    BY <1>3, <2>1 DEF Coalescing
  <2> QED
    BY <1>4, <2>1, <2>2
<1>6. ASSUME NEW k \in 1 .. n PROVE acc[k] = Coalesce(acc[k - 1], raws[k])
  <2>1. k - 1 \in Nat /\ 1 .. k \in SUBSET (1 .. (k - 1) + 1) /\ (k - 1) + 1 \in 1 .. k
    OBVIOUS
  <2>2. Max(1 .. k) = (k - 1) + 1
    BY <2>1, MaxUpTo
  <2>3. (1 .. k) \ {k} = 1 .. k - 1 /\ 1 .. k \in SUBSET (1 .. n) /\ 1 .. k # {}
    OBVIOUS
  <2>4. g[1 .. k] = Coalesce(g[1 .. k - 1], raws[k])
    <3>1. \A s \in SUBSET (1 .. n) :
            g[s] = IF s = {} THEN <<>> ELSE Coalesce(g[s \ {Max(s)}], raws[Max(s)])
      BY <1>3 DEF Coalescing
    <3>2. Max(1 .. k) = k
      BY <2>2
    <3> QED
      BY <2>3, <3>1, <3>2
  <2>5. acc[k] = g[1 .. k] /\ acc[k - 1] = g[1 .. k - 1]
    BY <1>4
  <2> QED
    BY <2>4, <2>5
<1>7. acc[n] = FoldLeft(Coalesce, <<>>, raws)
  BY <1>2, <1>4
<1> QED
  BY <1>5, <1>6, <1>7 DEF Joins

\* g folds Filtered over the samples at every set of places among the first n.
Filtering(start, page, n, g) ==
  g = [s \in SUBSET (1 .. n) |->
         IF s = {} THEN start ELSE Filtered(g[s \ {Max(s)}], page[Max(s)])]

\* It exists up to every place.
LEMMA FilteringExists ==
  ASSUME NEW start, NEW page, NEW n \in Nat
  PROVE  \E g : Filtering(start, page, n, g)
<1>1. PICK S : S = {m \in Nat : \E g : Filtering(start, page, m, g)}
  OBVIOUS
<1>2. 0 \in S
  <2>1. PICK g : g = [s \in SUBSET (1 .. 0) |-> start]
    OBVIOUS
  <2>2. \A s \in SUBSET (1 .. 0) : s = {}
    OBVIOUS
  <2>3. Filtering(start, page, 0, g)
    BY <2>1, <2>2 DEF Filtering
  <2> QED
    BY <1>1, <2>3
<1>3. ASSUME NEW m \in Nat, m \in S PROVE m + 1 \in S
  <2>1. PICK g : Filtering(start, page, m, g)
    BY <1>1, <1>3
  <2>2. PICK h : h = [s \in SUBSET (1 .. m + 1) |->
                        IF m + 1 \in s THEN Filtered(g[s \ {m + 1}], page[m + 1]) ELSE g[s]]
    OBVIOUS
  <2>3. \A s \in SUBSET (1 .. m) : s \in SUBSET (1 .. m + 1) /\ m + 1 \notin s
    OBVIOUS
  <2>4. \A s \in SUBSET (1 .. m) : h[s] = g[s]
    BY <2>2, <2>3
  <2>5. \A s \in SUBSET (1 .. m) :
          g[s] = IF s = {} THEN start ELSE Filtered(g[s \ {Max(s)}], page[Max(s)])
    BY <2>1 DEF Filtering
  <2>6. ASSUME NEW s \in SUBSET (1 .. m + 1)
        PROVE  h[s] = IF s = {} THEN start ELSE Filtered(h[s \ {Max(s)}], page[Max(s)])
    <3>1. CASE m + 1 \in s
      <4>1. Max(s) = m + 1 /\ s \ {m + 1} \in SUBSET (1 .. m)
        BY <3>1, MaxUpTo
      <4>2. h[s] = Filtered(g[s \ {m + 1}], page[m + 1])
        BY <2>2, <3>1
      <4> QED
        BY <2>4, <3>1, <4>1, <4>2
    <3>2. CASE m + 1 \notin s
      <4>1. s \in SUBSET (1 .. m) /\ s \ {Max(s)} \in SUBSET (1 .. m)
        <5>1. \A x \in s : x \in 1 .. m
          BY <3>2
        <5> QED
          BY <5>1
      <4> QED
        BY <2>4, <2>5, <4>1
    <3> QED
      BY <3>1, <3>2
  <2>7. h = [s \in SUBSET (1 .. m + 1) |->
               IF s = {} THEN start ELSE Filtered(h[s \ {Max(s)}], page[Max(s)])]
    BY <2>2, <2>6
  <2>8. Filtering(start, page, m + 1, h)
    BY <2>7 DEF Filtering
  <2> QED
    BY <1>1, <2>8
<1> QED
  BY <1>1, <1>2, <1>3, SetInduction

\* acc[k] are the rows of start and those the first k of n samples add.
Filters(acc, start, page, n) ==
  /\ acc[0] = start
  /\ \A k \in 1 .. n : acc[k] = Filtered(acc[k - 1], page[k])
  /\ acc[n] = FoldLeft(Filtered, start, page)

\* The local filter takes the samples of a page one after the other.
LEMMA FilterUnfolds ==
  ASSUME NEW start, NEW page, NEW n \in Nat, DOMAIN page = 1 .. n
  PROVE  \E acc : Filters(acc, start, page, n)
<1>1. PICK g : g = CHOOSE f : f = [s \in SUBSET (1 .. n) |->
                 IF s = {} THEN start ELSE Filtered(f[s \ {Max(s)}], page[Max(s)])]
  OBVIOUS
<1>2. FoldLeft(Filtered, start, page) = g[1 .. n]
  BY <1>1 DEF FoldLeft, MapThenFoldSet
<1>3. Filtering(start, page, n, g)
  <2>0. PICK h : Filtering(start, page, n, h)
    BY FilteringExists
  <2>1. h = [s \in SUBSET (1 .. n) |->
                 IF s = {} THEN start ELSE Filtered(h[s \ {Max(s)}], page[Max(s)])]
    BY <2>0 DEF Filtering
  <2>2. g = [s \in SUBSET (1 .. n) |->
                 IF s = {} THEN start ELSE Filtered(g[s \ {Max(s)}], page[Max(s)])]
    BY <1>1, <2>1, Zenon
  <2> QED
    BY <2>2 DEF Filtering
<1>4. PICK acc : acc = [k \in 0 .. n |-> g[1 .. k]]
  OBVIOUS
<1>5. acc[0] = start
  <2>1. 1 .. 0 = {} /\ {} \in SUBSET (1 .. n)
    OBVIOUS
  <2>2. g[{}] = start
    BY <1>3, <2>1 DEF Filtering
  <2> QED
    BY <1>4, <2>1, <2>2
<1>6. ASSUME NEW k \in 1 .. n PROVE acc[k] = Filtered(acc[k - 1], page[k])
  <2>1. k - 1 \in Nat /\ 1 .. k \in SUBSET (1 .. (k - 1) + 1) /\ (k - 1) + 1 \in 1 .. k
    OBVIOUS
  <2>2. Max(1 .. k) = (k - 1) + 1
    BY <2>1, MaxUpTo
  <2>3. (1 .. k) \ {k} = 1 .. k - 1 /\ 1 .. k \in SUBSET (1 .. n) /\ 1 .. k # {}
    OBVIOUS
  <2>4. g[1 .. k] = Filtered(g[1 .. k - 1], page[k])
    <3>1. \A s \in SUBSET (1 .. n) :
            g[s] = IF s = {} THEN start ELSE Filtered(g[s \ {Max(s)}], page[Max(s)])
      BY <1>3 DEF Filtering
    <3>2. Max(1 .. k) = k
      BY <2>2
    <3> QED
      BY <2>3, <3>1, <3>2
  <2>5. acc[k] = g[1 .. k] /\ acc[k - 1] = g[1 .. k - 1]
    BY <1>4
  <2> QED
    BY <2>4, <2>5
<1>7. acc[n] = FoldLeft(Filtered, start, page)
  BY <1>2, <1>4
<1> QED
  BY <1>5, <1>6, <1>7 DEF Filters

-----------------------------------------------------------------------------
(* Normalized windows.                                                     *)

\* n windows in their order.
Sequenced(s, n, A) ==
  /\ s \in [1 .. n -> A]
  /\ \A i, j \in 1 .. n : i # j => s[i] # s[j]
  /\ \A i, j \in 1 .. n : i < j => Before(s[i], s[j])
  /\ \A x \in A : \E i \in 1 .. n : s[i] = x

\* Of two windows one comes first.
LEMMA OneBefore ==
  ASSUME NEW v \in Nat \X Nat, NEW w \in Nat \X Nat, v # w
  PROVE  Before(v, w) \/ Before(w, v)
BY DEF Before

LEMMA BeforeAll ==
  ASSUME NEW u \in Nat \X Nat, NEW v \in Nat \X Nat, NEW w \in Nat \X Nat, Before(u, v), Before(v, w)
  PROVE  Before(u, w)
BY DEF Before

\* A set of n windows can be written in its order.
LEMMA SequenceExists ==
  \A n \in Nat : \A A \in SUBSET (Nat \X Nat) :
    IsFiniteSet(A) /\ Cardinality(A) = n => \E s : Sequenced(s, n, A)
<1> DEFINE Ordered(n) == \A A \in SUBSET (Nat \X Nat) :
             IsFiniteSet(A) /\ Cardinality(A) = n => \E s : Sequenced(s, n, A)
           S == {n \in Nat : Ordered(n)}
<1>1. 0 \in S
  <2>1. SUFFICES ASSUME NEW A \in SUBSET (Nat \X Nat), IsFiniteSet(A), Cardinality(A) = 0
                 PROVE  \E s : Sequenced(s, 0, A)
    OBVIOUS
  <2>2. A = {}  BY <2>1, FS_EmptySet
  <2>3. PICK s : s = [i \in 1 .. 0 |-> 0]  OBVIOUS
  <2>4. s \in [1 .. 0 -> A]  BY <2>3
  <2> QED  BY <2>2, <2>4 DEF Sequenced
<1>2. ASSUME NEW n \in Nat, n \in S PROVE n + 1 \in S
  <2>0. Ordered(n)  BY <1>2
  <2>1. SUFFICES ASSUME NEW A \in SUBSET (Nat \X Nat), IsFiniteSet(A), Cardinality(A) = n + 1
                 PROVE  \E s : Sequenced(s, n + 1, A)
    OBVIOUS
  <2>2. ASSUME NEW x \in A
        PROVE  \E s : Sequenced(s, n, A \ {x})
    <3>1. IsFiniteSet(A \ {x}) /\ Cardinality(A \ {x}) = Cardinality(A) - 1
      BY <2>1, <2>2, FS_RemoveElement
    <3>2. A \ {x} \in SUBSET (Nat \X Nat) /\ Cardinality(A \ {x}) = n  BY <2>1, <3>1
    <3> QED  BY <2>0, <3>1, <3>2
  <2>3. PICK final \in A : \A a \in A : a # final => Before(a, final)
    <3>1. PICK x \in A : TRUE
      <4>1. A # {}  BY <2>1, FS_EmptySet
      <4> QED  BY <4>1
    <3>2. PICK s : Sequenced(s, n, A \ {x})  BY <2>2
    <3>3. CASE n = 0
      <4>1. \A a \in A : a = x  BY <3>2, <3>3 DEF Sequenced
      <4> QED  BY <4>1
    <3>4. CASE n # 0
      <4>1. n \in 1 .. n /\ s[n] \in A /\ s[n] # x  BY <3>2, <3>4 DEF Sequenced
      <4>2. ASSUME NEW a \in A \ {x} PROVE a = s[n] \/ Before(a, s[n])
        <5>1. PICK i \in 1 .. n : s[i] = a  BY <3>2, <4>2 DEF Sequenced
        <5>2. i = n \/ i < n  BY <5>1
        <5> QED  BY <3>2, <4>1, <5>1, <5>2 DEF Sequenced
      <4>3. CASE Before(x, s[n])
        BY <4>1, <4>2, <4>3
      <4>4. CASE Before(s[n], x)
        <5>1. ASSUME NEW a \in A, a # x PROVE Before(a, x)
          <6>1. a = s[n] \/ Before(a, s[n])  BY <4>2, <5>1
          <6>2. a \in Nat \X Nat /\ x \in Nat \X Nat /\ s[n] \in Nat \X Nat  BY <4>1
          <6> QED  BY <4>4, <6>1, <6>2, BeforeAll
        <5> QED  BY <5>1
      <4>5. Before(x, s[n]) \/ Before(s[n], x)
        <5>1. x \in Nat \X Nat /\ s[n] \in Nat \X Nat  BY <4>1
        <5> QED  BY <4>1, <5>1, OneBefore
      <4> QED  BY <4>3, <4>4, <4>5
    <3> QED  BY <3>3, <3>4
  <2>4. PICK s : Sequenced(s, n, A \ {final})  BY <2>2
  <2>5. PICK t : t = [i \in 1 .. n + 1 |-> IF i = n + 1 THEN final ELSE s[i]]  OBVIOUS
  <2>6. \A i \in 1 .. n + 1 : i = n + 1 \/ i \in 1 .. n  OBVIOUS
  <2>7. s \in [1 .. n -> A \ {final}]  BY <2>4 DEF Sequenced
  <2>8. t \in [1 .. n + 1 -> A]  BY <2>5, <2>6, <2>7
  <2>9. \A i \in 1 .. n : t[i] = s[i] /\ t[i] # final /\ t[i] \in A  BY <2>5, <2>7
  <2>10. t[n + 1] = final /\ n + 1 \in 1 .. n + 1  BY <2>5
  <2>11. ASSUME NEW i \in 1 .. n + 1, NEW j \in 1 .. n + 1, i # j PROVE t[i] # t[j]
    <3>1. CASE i = n + 1 \/ j = n + 1
      BY <2>6, <2>9, <2>10, <2>11, <3>1
    <3>2. CASE i # n + 1 /\ j # n + 1
      BY <2>4, <2>6, <2>9, <2>11, <3>2 DEF Sequenced
    <3> QED  BY <3>1, <3>2
  <2>12. ASSUME NEW i \in 1 .. n + 1, NEW j \in 1 .. n + 1, i < j PROVE Before(t[i], t[j])
    <3>0. i \in 1 .. n  BY <2>12
    <3>1. CASE j = n + 1
      BY <2>3, <2>9, <2>10, <3>0, <3>1
    <3>2. CASE j # n + 1
      <4>1. j \in 1 .. n  BY <2>6, <3>2
      <4> QED  BY <2>4, <2>9, <2>12, <3>0, <4>1 DEF Sequenced
    <3> QED  BY <3>1, <3>2
  <2>13. ASSUME NEW x \in A PROVE \E i \in 1 .. n + 1 : t[i] = x
    <3>1. CASE x = final
      BY <2>10, <3>1
    <3>2. CASE x # final
      <4>1. PICK i \in 1 .. n : s[i] = x  BY <2>4, <3>2 DEF Sequenced
      <4> QED  BY <2>9, <4>1
    <3> QED  BY <3>1, <3>2
  <2>14. Sequenced(t, n + 1, A)  BY <2>8, <2>11, <2>12, <2>13 DEF Sequenced
  <2> QED  BY <2>14
<1> HIDE DEF Ordered
<1>3. \A n \in Nat : n \in S => n + 1 \in S  BY <1>2
<1> HIDE DEF S
<1>4. Nat \subseteq S  BY <1>1, <1>3, SetInduction
<1> QED  BY <1>4 DEF S, Ordered

\* std::sort lists the windows of a scan in their order.
LEMMA SortedWindows ==
  ASSUME NEW raw \in SUBSET (Nat \X Nat), IsFiniteSet(raw)
  PROVE  /\ InOrder(raw) \in SetToSeqs(raw)
         /\ \A i, j \in DOMAIN InOrder(raw) : i < j => Before(InOrder(raw)[i], InOrder(raw)[j])
<1>1. PICK n : n = Cardinality(raw) /\ n \in Nat  BY FS_CardinalityType
<1>2. PICK s : Sequenced(s, n, raw)  BY <1>1, SequenceExists
<1>3. s \in SetToSeqs(raw)  BY <1>1, <1>2 DEF Sequenced, SetToSeqs
<1>4. \A i, j \in DOMAIN s : i < j => Before(s[i], s[j])  BY <1>2 DEF Sequenced
<1> QED  BY <1>3, <1>4 DEF InOrder

\* n windows, each no later than the next.
Ascends(s, n) ==
  /\ \A m \in 1 .. n : s[m] \in Nat \X Nat /\ s[m][1] <= s[m][2]
  /\ \A i, j \in 1 .. n : i < j => s[i][1] <= s[j][1]

\* ws are windows that lie apart and hold the time of the first k of s, no more.
Covering(ws, s, k) ==
  /\ ws \in Seq(Nat \X Nat) /\ (k > 0 => ws # <<>>)
  /\ \A i \in DOMAIN ws : ws[i][1] <= ws[i][2]
  /\ \A i, j \in DOMAIN ws : i < j => ws[i][2] + 1 < ws[j][1]
  /\ \A i \in DOMAIN ws : \E m \in 1 .. k : ws[i][1] = s[m][1]
  /\ \A m \in 1 .. k : \E i \in DOMAIN ws : ws[i][1] <= s[m][1] /\ s[m][2] <= ws[i][2]
  /\ \A i \in DOMAIN ws : \A t \in Nat : ws[i][1] <= t /\ t <= ws[i][2] =>
       \E m \in 1 .. k : s[m][1] <= t /\ t <= s[m][2]

\* A window that touches or overlaps the last one widens it.
LEMMA WidensLast ==
  ASSUME NEW n \in Nat, NEW s, Ascends(s, n), NEW k \in Nat, k + 1 <= n,
         NEW ws, Covering(ws, s, k), ws # <<>>, s[k + 1][1] <= Last(ws)[2] + 1,
         NEW q, q = [ws EXCEPT ![Len(ws)] = Widened(@, s[k + 1])]
  PROVE  Covering(q, s, k + 1)
<1>0. PICK z, a : z = Len(ws) /\ a = s[k + 1]  OBVIOUS
<1>1. k + 1 \in 1 .. n /\ a \in Nat \X Nat /\ a[1] <= a[2]
      /\ \A m \in 1 .. k : m \in 1 .. n /\ s[m] \in Nat \X Nat /\ s[m][1] <= a[1]
  BY <1>0 DEF Ascends
<1>2. /\ ws \in Seq(Nat \X Nat) /\ z \in Nat /\ z \in 1 .. z /\ DOMAIN ws = 1 .. z
      /\ \A i \in 1 .. z : ws[i] \in Nat \X Nat
  BY <1>0 DEF Covering
<1>3. ws[z][1] <= ws[z][2] /\ a[1] <= ws[z][2] + 1
  BY <1>0, <1>2 DEF Covering, Last
<1>4. PICK f : f = Widened(ws[z], a)  OBVIOUS
<1>5. /\ f \in Nat \X Nat /\ f[1] = ws[z][1] /\ f[2] \in {ws[z][2], a[2]}
      /\ f[2] >= ws[z][2] /\ f[2] >= a[2]
  BY <1>1, <1>2, <1>4 DEF Widened
<1>6. q = [ws EXCEPT ![z] = f]  BY <1>0, <1>4
<1>7. /\ q \in Seq(Nat \X Nat) /\ q # <<>> /\ DOMAIN q = 1 .. z /\ q[z] = f
      /\ \A i \in 1 .. z : i # z => q[i] = ws[i]
  BY <1>2, <1>5, <1>6
<1>8. ws[z][1] <= a[1]
  <2>1. PICK m \in 1 .. k : ws[z][1] = s[m][1]  BY <1>2 DEF Covering
  <2> QED  BY <1>1, <2>1
<1>9. \A i \in 1 .. z : q[i][1] = ws[i][1] /\ q[i][2] >= ws[i][2] /\ q[i] \in Nat \X Nat
  BY <1>2, <1>5, <1>7
<1>10. \A m \in 1 .. k + 1 : m = k + 1 \/ m \in 1 .. k  OBVIOUS
<1>11. \A m \in 1 .. k : m \in 1 .. k + 1  OBVIOUS
<1>12. \A i \in DOMAIN q : q[i][1] <= q[i][2]
  <2>1. \A i \in 1 .. z : ws[i][1] <= ws[i][2]  BY <1>2 DEF Covering
  <2> QED  BY <1>2, <1>7, <1>9, <2>1
<1>13. ASSUME NEW i \in DOMAIN q, NEW j \in DOMAIN q, i < j PROVE q[i][2] + 1 < q[j][1]
  <2>1. i \in 1 .. z /\ j \in 1 .. z /\ i # z  BY <1>2, <1>7, <1>13
  <2>2. ws[i][2] + 1 < ws[j][1]  BY <1>2, <1>13, <2>1 DEF Covering
  <2> QED  BY <1>7, <1>9, <2>1, <2>2
<1>14. ASSUME NEW i \in DOMAIN q PROVE \E m \in 1 .. k + 1 : q[i][1] = s[m][1]
  <2>1. i \in 1 .. z  BY <1>7
  <2>2. PICK m \in 1 .. k : ws[i][1] = s[m][1]  BY <1>2, <2>1 DEF Covering
  <2> QED  BY <1>9, <1>11, <2>1, <2>2
<1>15. ASSUME NEW m \in 1 .. k + 1
       PROVE  \E i \in DOMAIN q : q[i][1] <= s[m][1] /\ s[m][2] <= q[i][2]
  <2>1. CASE m = k + 1
    <3>1. q[z][1] <= s[m][1] /\ s[m][2] <= q[z][2]
      BY <1>0, <1>1, <1>2, <1>5, <1>7, <1>8, <2>1
    <3> QED  BY <1>2, <1>7, <3>1
  <2>2. CASE m \in 1 .. k
    <3>1. PICK i \in DOMAIN ws : ws[i][1] <= s[m][1] /\ s[m][2] <= ws[i][2]  BY <2>2 DEF Covering
    <3>2. i \in 1 .. z /\ i \in DOMAIN q  BY <1>2, <1>7, <3>1
    <3>3. q[i][1] = ws[i][1] /\ q[i][2] >= ws[i][2] /\ q[i][2] \in Nat /\ ws[i][2] \in Nat
      BY <1>2, <1>9, <3>2
    <3>4. s[m][2] \in Nat  BY <1>1, <2>2
    <3>5. q[i][1] <= s[m][1]  BY <3>1, <3>3
    <3>6. s[m][2] <= q[i][2]  BY <3>1, <3>3, <3>4
    <3> QED  BY <3>2, <3>5, <3>6
  <2> QED  BY <1>10, <2>1, <2>2
<1>16. ASSUME NEW i \in DOMAIN q, NEW t \in Nat, q[i][1] <= t, t <= q[i][2]
       PROVE  \E m \in 1 .. k + 1 : s[m][1] <= t /\ t <= s[m][2]
  <2>1. i \in 1 .. z  BY <1>7
  <2>2. CASE t <= ws[i][2]
    <3>1. ws[i][1] <= t  BY <1>9, <1>16, <2>1
    <3>2. PICK m \in 1 .. k : s[m][1] <= t /\ t <= s[m][2]  BY <1>2, <2>1, <2>2, <3>1 DEF Covering
    <3> QED  BY <1>11, <3>2
  <2>3. CASE ~(t <= ws[i][2])
    <3>1. i = z  BY <1>7, <1>16, <2>1, <2>3
    <3>2. ws[z][2] < t /\ t <= a[2] /\ a[1] <= t
      BY <1>1, <1>2, <1>3, <1>5, <1>7, <1>16, <2>3, <3>1
    <3> QED  BY <1>0, <1>1, <3>2
  <2> QED  BY <2>2, <2>3
<1> QED  BY <1>7, <1>12, <1>13, <1>14, <1>15, <1>16 DEF Covering

\* Any other one comes after it.
LEMMA AddsWindow ==
  ASSUME NEW n \in Nat, NEW s, Ascends(s, n), NEW k \in Nat, k + 1 <= n,
         NEW ws, Covering(ws, s, k), ws = <<>> \/ s[k + 1][1] > Last(ws)[2] + 1,
         NEW q, q = Append(ws, s[k + 1])
  PROVE  Covering(q, s, k + 1)
<1>0. PICK z, a : z = Len(ws) /\ a = s[k + 1]  OBVIOUS
<1>1. k + 1 \in 1 .. n /\ a \in Nat \X Nat /\ a[1] <= a[2]  BY <1>0 DEF Ascends
<1>2. /\ ws \in Seq(Nat \X Nat) /\ z \in Nat /\ DOMAIN ws = 1 .. z
      /\ \A i \in 1 .. z : ws[i] \in Nat \X Nat
  BY <1>0 DEF Covering
<1>3. /\ q \in Seq(Nat \X Nat) /\ q # <<>> /\ DOMAIN q = 1 .. z + 1 /\ q[z + 1] = a
      /\ \A i \in 1 .. z : q[i] = ws[i] /\ i \in 1 .. z + 1
  BY <1>0, <1>1, <1>2
<1>4. \A i \in 1 .. z + 1 : i = z + 1 \/ i \in 1 .. z  BY <1>2
<1>5. \A m \in 1 .. k + 1 : m = k + 1 \/ m \in 1 .. k  OBVIOUS
<1>6. \A m \in 1 .. k : m \in 1 .. k + 1  OBVIOUS
<1>7. \A i \in 1 .. z : ws[i][1] <= ws[i][2]  BY <1>2 DEF Covering
<1>8. ASSUME NEW i \in 1 .. z PROVE ws[i][2] + 1 < a[1]
  <2>1. z \in 1 .. z /\ ws # <<>>  BY <1>2, <1>8
  <2>2. ws[z][2] + 1 < a[1]  BY <1>0, <1>1, <1>2, <2>1 DEF Last
  <2>3. CASE i = z  BY <2>2, <2>3
  <2>4. CASE i # z
    <3>1. i < z  BY <1>2, <1>8, <2>4
    <3>2. ws[i][2] + 1 < ws[z][1] /\ ws[z][1] <= ws[z][2]  BY <1>2, <1>7, <1>8, <2>1, <3>1 DEF Covering
    <3>3. ws[i][2] \in Nat /\ ws[z][1] \in Nat /\ ws[z][2] \in Nat /\ a[1] \in Nat
      BY <1>1, <1>2, <1>8, <2>1
    <3>4. \A b, c, d, e \in Nat : b + 1 < c /\ c <= d /\ d + 1 < e => b + 1 < e
      OBVIOUS
    <3> QED  BY <2>2, <3>2, <3>3, <3>4, Zenon
  <2> QED  BY <2>3, <2>4
<1>9. \A i \in DOMAIN q : q[i][1] <= q[i][2]  BY <1>1, <1>3, <1>4, <1>7
<1>10. ASSUME NEW i \in DOMAIN q, NEW j \in DOMAIN q, i < j PROVE q[i][2] + 1 < q[j][1]
  <2>1. i \in 1 .. z  BY <1>2, <1>3, <1>10
  <2>2. CASE j = z + 1  BY <1>3, <1>8, <2>1, <2>2
  <2>3. CASE j \in 1 .. z
    <3>1. ws[i][2] + 1 < ws[j][1]  BY <1>2, <1>10, <2>1, <2>3 DEF Covering
    <3> QED  BY <1>3, <2>1, <2>3, <3>1
  <2> QED  BY <1>3, <1>4, <2>2, <2>3
<1>11. ASSUME NEW i \in DOMAIN q PROVE \E m \in 1 .. k + 1 : q[i][1] = s[m][1]
  <2>1. CASE i = z + 1  BY <1>0, <1>3, <2>1
  <2>2. CASE i \in 1 .. z
    <3>1. PICK m \in 1 .. k : ws[i][1] = s[m][1]  BY <1>2, <2>2 DEF Covering
    <3> QED  BY <1>3, <1>6, <2>2, <3>1
  <2> QED  BY <1>3, <1>4, <2>1, <2>2
<1>12. ASSUME NEW m \in 1 .. k + 1
       PROVE  \E i \in DOMAIN q : q[i][1] <= s[m][1] /\ s[m][2] <= q[i][2]
  <2>1. CASE m = k + 1
    <3>1. z + 1 \in DOMAIN q  BY <1>2, <1>3
    <3>2. q[z + 1][1] <= s[m][1] /\ s[m][2] <= q[z + 1][2]  BY <1>0, <1>1, <1>3, <2>1
    <3> QED  BY <3>1, <3>2
  <2>2. CASE m \in 1 .. k
    <3>1. PICK i \in DOMAIN ws : ws[i][1] <= s[m][1] /\ s[m][2] <= ws[i][2]  BY <2>2 DEF Covering
    <3> QED  BY <1>2, <1>3, <3>1
  <2> QED  BY <1>5, <2>1, <2>2
<1>13. ASSUME NEW i \in DOMAIN q, NEW t \in Nat, q[i][1] <= t, t <= q[i][2]
       PROVE  \E m \in 1 .. k + 1 : s[m][1] <= t /\ t <= s[m][2]
  <2>1. CASE i = z + 1  BY <1>0, <1>1, <1>3, <1>13, <2>1
  <2>2. CASE i \in 1 .. z
    <3>1. ws[i][1] <= t /\ t <= ws[i][2]  BY <1>3, <1>13, <2>2
    <3>2. PICK m \in 1 .. k : s[m][1] <= t /\ t <= s[m][2]  BY <1>2, <2>2, <3>1 DEF Covering
    <3> QED  BY <1>6, <3>2
  <2> QED  BY <1>3, <1>4, <2>1, <2>2
<1> QED  BY <1>3, <1>9, <1>10, <1>11, <1>12, <1>13 DEF Covering

\* Windows that lie apart hold the time of those they were made of, no more.
Normal(ws, raw) ==
  /\ ws \in Seq(Nat \X Nat) /\ ws # <<>>
  /\ \A i \in DOMAIN ws : ws[i][1] <= ws[i][2]
  /\ \A i, j \in DOMAIN ws : i < j => ws[i][2] < ws[j][1]
  /\ \A t \in Nat : (\E w \in raw : w[1] <= t /\ t <= w[2])
                      <=> \E i \in DOMAIN ws : ws[i][1] <= t /\ t <= ws[i][2]

\* extractNormalizedWindows() makes such windows, and leaves one window alone.
LEMMA WindowsNormal ==
  ASSUME NEW raw \in SUBSET (Nat \X Nat), IsFiniteSet(raw), raw # {}, \A w \in raw : w[1] <= w[2]
  PROVE  /\ Normal(NormalizedWindows(raw), raw)
         /\ \A w : raw = {w} => NormalizedWindows(raw) = <<w>>
<1>1. PICK s, n : s = InOrder(raw) /\ n = Cardinality(raw)  OBVIOUS
<1>2. s \in SetToSeqs(raw) /\ \A i, j \in DOMAIN s : i < j => Before(s[i], s[j])
  BY <1>1, SortedWindows
<1>3. /\ n \in Nat /\ s \in Seq(raw) /\ DOMAIN s = 1 .. n
      /\ \A x \in raw : \E i \in DOMAIN s : s[i] = x
  BY <1>1, <1>2, ListedAll
<1>4. Ascends(s, n)
  <2>1. \A m \in 1 .. n : s[m] \in raw  BY <1>3
  <2>2. \A m \in 1 .. n : s[m] \in Nat \X Nat /\ s[m][1] <= s[m][2]  BY <2>1
  <2>3. ASSUME NEW i \in 1 .. n, NEW j \in 1 .. n, i < j PROVE s[i][1] <= s[j][1]
    <3>1. Before(s[i], s[j])  BY <1>2, <1>3, <2>3
    <3>2. s[i][1] \in Nat /\ s[j][1] \in Nat  BY <2>2
    <3> QED  BY <3>1, <3>2 DEF Before
  <2> QED  BY <2>2, <2>3 DEF Ascends
<1>5. PICK acc : Joins(acc, s, n)  BY <1>3, WindowsUnfold
<1>6. acc[n] = NormalizedWindows(raw)  BY <1>1, <1>5 DEF Joins, NormalizedWindows
<1>7. PICK S : S = {k \in Nat : k <= n => Covering(acc[k], s, k)}  OBVIOUS
<1>8. 0 \in S
  <2>1. acc[0] = <<>>  BY <1>5 DEF Joins
  <2>2. Covering(<<>>, s, 0)
    <3>1. <<>> \in Seq(Nat \X Nat) /\ DOMAIN <<>> = {} /\ 1 .. 0 = {} /\ ~(0 > 0)  OBVIOUS
    <3> QED  BY <3>1 DEF Covering
  <2> QED  BY <1>7, <2>1, <2>2
<1>9. ASSUME NEW k \in Nat, k \in S PROVE k + 1 \in S
  <2>1. SUFFICES ASSUME k + 1 <= n PROVE Covering(acc[k + 1], s, k + 1)
    BY <1>7
  <2>2. Covering(acc[k], s, k)  BY <1>3, <1>7, <1>9, <2>1
  <2>3. acc[k + 1] = Coalesce(acc[k], s[k + 1])
    <3>1. k + 1 \in 1 .. n /\ (k + 1) - 1 = k  BY <1>3, <2>1
    <3> QED  BY <1>5, <3>1 DEF Joins
  <2>4. CASE acc[k] = <<>> \/ s[k + 1][1] > Last(acc[k])[2] + 1
    <3>1. acc[k + 1] = Append(acc[k], s[k + 1])  BY <2>3, <2>4 DEF Coalesce
    <3> QED  BY <1>3, <1>4, <2>1, <2>2, <2>4, <3>1, AddsWindow
  <2>5. CASE ~(acc[k] = <<>> \/ s[k + 1][1] > Last(acc[k])[2] + 1)
    <3>1. acc[k + 1] = [acc[k] EXCEPT ![Len(acc[k])] = Widened(@, s[k + 1])]  BY <2>3, <2>5 DEF Coalesce
    <3>2. s[k + 1][1] <= Last(acc[k])[2] + 1
      <4>1. k + 1 \in 1 .. n
        <5>1. n \in Nat  BY <1>3
        <5> QED  BY <1>9, <2>1, <5>1
      <4>2. s[k + 1][1] \in Nat  BY <1>4, <4>1 DEF Ascends
      <4>3. Len(acc[k]) \in DOMAIN acc[k] /\ acc[k] \in Seq(Nat \X Nat)  BY <2>2, <2>5 DEF Covering
      <4>4. Last(acc[k])[2] \in Nat  BY <4>3 DEF Last
      <4> QED  BY <2>5, <4>2, <4>4
    <3> QED  BY <1>3, <1>4, <2>1, <2>2, <2>5, <3>1, <3>2, WidensLast
  <2> QED  BY <2>4, <2>5
<1>10. Nat \subseteq S  BY <1>8, <1>9, SetInduction
<1>11. Covering(acc[n], s, n)  BY <1>3, <1>7, <1>10
<1>12. n > 0
  <2>1. PICK x \in raw : TRUE  OBVIOUS
  <2> QED  BY <1>3, <2>1
<1>13. PICK ws : ws = NormalizedWindows(raw)  OBVIOUS
<1>14. /\ ws \in Seq(Nat \X Nat) /\ ws # <<>>
       /\ \A i \in DOMAIN ws : ws[i] \in Nat \X Nat /\ ws[i][1] <= ws[i][2]
       /\ \A i, j \in DOMAIN ws : i < j => ws[i][2] + 1 < ws[j][1]
  BY <1>6, <1>11, <1>12, <1>13 DEF Covering
<1>15. \A i, j \in DOMAIN ws : i < j => ws[i][2] < ws[j][1]
  BY <1>14
<1>16. ASSUME NEW t \in Nat, NEW w \in raw, w[1] <= t, t <= w[2]
       PROVE  \E i \in DOMAIN ws : ws[i][1] <= t /\ t <= ws[i][2]
  <2>1. PICK m \in 1 .. n : s[m] = w  BY <1>3
  <2>2. PICK i \in DOMAIN ws : ws[i][1] <= w[1] /\ w[2] <= ws[i][2]
    BY <1>6, <1>11, <1>13, <2>1 DEF Covering
  <2>3. /\ w[1] \in Nat /\ w[2] \in Nat
        /\ ws[i][1] \in Nat /\ ws[i][2] \in Nat
    BY <1>14, <2>2
  <2>4. ws[i][1] <= t /\ t <= ws[i][2]
    BY <1>16, <2>2, <2>3
  <2> QED  BY <2>2, <2>4
<1>17. ASSUME NEW t \in Nat, NEW i \in DOMAIN ws, ws[i][1] <= t, t <= ws[i][2]
       PROVE  \E w \in raw : w[1] <= t /\ t <= w[2]
  <2>1. PICK m \in 1 .. n : s[m][1] <= t /\ t <= s[m][2]
    BY <1>6, <1>11, <1>13, <1>17 DEF Covering
  <2>2. s[m] \in raw  BY <1>3
  <2> QED  BY <2>1, <2>2
<1>18. Normal(ws, raw)
  BY <1>14, <1>15, <1>16, <1>17 DEF Normal
<1>19. ASSUME NEW w, raw = {w} PROVE ws = <<w>>
  <2>1. n = 1  BY <1>1, <1>19, FS_Singleton
  <2>2. 1 \in 1 .. n /\ acc[1] = Coalesce(acc[0], s[1]) /\ acc[0] = <<>> /\ s[1] = w
    BY <1>3, <1>5, <1>19, <2>1 DEF Joins
  <2>3. acc[1] = Append(<<>>, w)  BY <2>2 DEF Coalesce
  <2> QED  BY <1>6, <1>13, <2>1, <2>3
<1> QED  BY <1>13, <1>18, <1>19

-----------------------------------------------------------------------------
(* Slices and buckets.                                                     *)

\* What a scan is, with its windows normalized.
ScanShape ==
  /\ scan.kind \in {"series", "window", "wide"}
  /\ scan.size \in Nat \ {0} /\ scan.slice \in Nat \ {0}
  /\ Normal(scan.windows, scan.raw)
  /\ scan.kind = "series" =>
       Len(scan.windows) = 1 /\ scan.windows[1][2] - scan.windows[1][1] <= scan.slice

\* Slices of a window begin a whole number of lengths after it.
SliceInv ==
  /\ slice.window \in DOMAIN scan.windows /\ slice.begin \in Nat
  /\ slice = SliceAt(slice.window, slice.begin)
  /\ \E m \in Nat : slice.begin = scan.windows[slice.window][1] + m * scan.slice
  /\ slice.begin <= scan.windows[slice.window][2]
  /\ nextBegin = AfterSlice(slice)
  /\ scan.kind = "series" => slice.begin = scan.windows[1][1]

\* The end of a slice in the window from a to b, and where the next one begins.
Sliced(a, b) ==
  /\ a \in Nat /\ b \in Nat /\ a <= b /\ a <= slice.begin
  /\ slice.end \in Nat /\ slice.begin <= slice.end /\ slice.end <= b
  /\ nextBegin \in Nat /\ slice.begin < nextBegin
  /\ slice.final => slice.end = b /\ nextBegin = b + 1
  /\ ~slice.final => slice.end = slice.begin + scan.slice /\ nextBegin = slice.end /\ slice.end < b
  /\ scan.kind = "series" => slice.final

LEMMA WindowFacts ==
  ASSUME ScanShape, NEW w \in DOMAIN scan.windows
  PROVE  /\ scan.windows[w][1] \in Nat /\ scan.windows[w][2] \in Nat
         /\ scan.windows[w][1] <= scan.windows[w][2]
         /\ DOMAIN scan.windows = 1 .. Len(scan.windows) /\ Len(scan.windows) \in Nat \ {0}
<1>1. PICK ws : ws = scan.windows  OBVIOUS
<1>2. /\ ws \in Seq(Nat \X Nat) /\ ws # <<>>
      /\ \A i \in DOMAIN ws : ws[i][1] <= ws[i][2]
  BY <1>1 DEF ScanShape, Normal
<1>3. w \in DOMAIN ws /\ ws[w] \in Nat \X Nat /\ DOMAIN ws = 1 .. Len(ws) /\ Len(ws) \in Nat \ {0}
  BY <1>1, <1>2
<1>4. ws[w][1] \in Nat /\ ws[w][2] \in Nat  BY <1>3
<1> QED  BY <1>1, <1>2, <1>3, <1>4

LEMMA SliceFacts ==
  ASSUME ScanShape, SliceInv
  PROVE  Sliced(scan.windows[slice.window][1], scan.windows[slice.window][2])
<1>1. PICK a, b, d, w :
        a = scan.windows[slice.window][1] /\ b = scan.windows[slice.window][2] /\ d = scan.slice
        /\ w = slice.window
  OBVIOUS
<1>2. a \in Nat /\ b \in Nat /\ a <= b /\ d \in Nat \ {0} /\ slice.begin \in Nat /\ slice.begin <= b
  BY <1>1, WindowFacts DEF SliceInv, ScanShape
<1>3. PICK e : e = IF b - slice.begin < d THEN b ELSE slice.begin + d  OBVIOUS
<1>4. slice = [window |-> w, begin |-> slice.begin, end |-> e, final |-> e = b]
  BY <1>1, <1>3 DEF SliceInv, SliceAt
<1>5. slice.end = e /\ slice.final = (e = b)  BY <1>4
<1>6. nextBegin = IF slice.final THEN b + 1 ELSE e  BY <1>1, <1>5 DEF SliceInv, AfterSlice
<1>7. a <= slice.begin
  <2>1. PICK m \in Nat : slice.begin = a + m * d  BY <1>1 DEF SliceInv
  <2>2. m * d >= 0 /\ m * d \in Int  BY <1>2
  <2> QED  BY <1>2, <2>1, <2>2
<1>8. scan.kind = "series" => e = b
  <2>1. SUFFICES ASSUME scan.kind = "series" PROVE e = b  OBVIOUS
  <2>2. Len(scan.windows) = 1 /\ w = 1  BY <1>1, <2>1, WindowFacts DEF ScanShape, SliceInv
  <2>3. slice.begin = a /\ b - a <= d  BY <1>1, <2>1, <2>2 DEF ScanShape, SliceInv
  <2> QED  BY <1>2, <1>3, <2>3
<1>9. e \in Nat /\ slice.begin <= e /\ e <= b /\ (e # b => e = slice.begin + d)
  BY <1>2, <1>3
<1>10. slice.final <=> e = b  BY <1>5
<1>11. slice.end \in Nat /\ slice.begin <= slice.end /\ slice.end <= b
  BY <1>5, <1>9
<1>12. slice.final => slice.end = b /\ nextBegin = b + 1
  BY <1>5, <1>6, <1>10
<1>13. ~slice.final => slice.end = slice.begin + scan.slice /\ nextBegin = slice.end /\ slice.end < b
  BY <1>1, <1>2, <1>5, <1>6, <1>9, <1>10
<1>14. nextBegin \in Nat /\ slice.begin < nextBegin
  BY <1>1, <1>2, <1>11, <1>12, <1>13
<1>15. Sliced(a, b)
  BY <1>2, <1>7, <1>8, <1>10, <1>11, <1>12, <1>13, <1>14 DEF Sliced
<1> QED  BY <1>1, <1>15

\* The samples of a bucket are its ticks, in their order.
BucketOf(t) == t \div scan.size
Holds(page, k) ==
  /\ \E n \in Nat : DOMAIN page = 1 .. n
  /\ \A i \in DOMAIN page : page[i] \in 0 .. Horizon /\ BucketOf(page[i]) = k
  /\ \A i, j \in DOMAIN page : i < j => page[i] < page[j]
  /\ \A t \in 0 .. Horizon : BucketOf(t) = k => \E i \in DOMAIN page : page[i] = t

LEMMA BucketHolds ==
  ASSUME ScanShape, NEW k \in Nat
  PROVE  Holds(Bucket(k), k)
<1>1. PICK d, h : d = scan.size /\ h = Horizon  OBVIOUS
<1>2. d \in Nat \ {0} /\ h \in Nat  BY <1>1, ScanAssumption DEF ScanShape
<1>3. PICK z : z = k * d  OBVIOUS
<1>4. z \in Nat  BY <1>2, <1>3
<1>5. PICK l : l = IF d < h + 1 - z THEN d ELSE h + 1 - z  OBVIOUS
<1>6. l \in Int /\ l <= d /\ l <= h + 1 - z /\ (l = d \/ l = h + 1 - z)  BY <1>2, <1>4, <1>5
<1>7. PICK page : page = Bucket(k)  OBVIOUS
<1>8. page = [i \in 1 .. l |-> z + i - 1]
  BY <1>1, <1>3, <1>5, <1>7 DEF Bucket, Least
<1>9. DOMAIN page = 1 .. l /\ \A i \in 1 .. l : page[i] = z + i - 1
  BY <1>8
<1>10. \E n \in Nat : DOMAIN page = 1 .. n
  <2>1. CASE l >= 0  BY <1>6, <1>9, <2>1
  <2>2. CASE ~(l >= 0)
    <3>1. 1 .. l = 1 .. 0  BY <1>6, <2>2
    <3> QED  BY <1>9, <3>1
  <2> QED  BY <2>1, <2>2
<1>11. ASSUME NEW i \in DOMAIN page PROVE page[i] \in 0 .. h /\ BucketOf(page[i]) = k
  <2>1. PICK t : t = page[i]  OBVIOUS
  <2>a. i \in 1 .. l  BY <1>9
  <2>b. i \in Nat /\ 1 <= i /\ i <= l  BY <1>6, <2>a
  <2>2. i \in Nat /\ 1 <= i /\ i <= d /\ i <= h + 1 - z /\ t = z + i - 1
    BY <1>2, <1>4, <1>6, <1>9, <2>1, <2>a, <2>b
  <2>3. t \in Nat /\ t <= h /\ k * d <= t /\ t < k * d + d  BY <1>2, <1>3, <1>4, <2>2
  <2>4. t \div d = k  BY <1>2, <2>3
  <2> QED  BY <1>1, <2>1, <2>3, <2>4 DEF BucketOf
<1>12. \A i, j \in DOMAIN page : i < j => page[i] < page[j]
  BY <1>4, <1>6, <1>9
<1>13. ASSUME NEW t \in 0 .. h, BucketOf(t) = k PROVE \E i \in DOMAIN page : page[i] = t
  <2>1. t \div d = k /\ t \in Nat /\ t <= h  BY <1>1, <1>2, <1>13 DEF BucketOf
  <2>2. k * d <= t /\ t < k * d + d  BY <1>2, <2>1
  <2>3. PICK i : i = t - z + 1  OBVIOUS
  <2>4. i \in 1 .. l  BY <1>2, <1>3, <1>4, <1>6, <2>1, <2>2, <2>3
  <2>5. page[i] = t  BY <1>4, <1>9, <2>1, <2>3, <2>4
  <2> QED  BY <1>9, <2>4, <2>5
<1> QED  BY <1>1, <1>7, <1>10, <1>11, <1>12, <1>13 DEF Holds

\* The next page of a shard, and those after it.
LEMMA NextBucket ==
  ASSUME NEW k \in Nat, NEW l \in Nat
  PROVE  /\ Buckets(k, l) = <<>> <=> k > l
         /\ k <= l => /\ Buckets(k, l) # <<>> /\ Head(Buckets(k, l)) = Bucket(k)
                      /\ Tail(Buckets(k, l)) = Buckets(k + 1, l)
<1> DEFINE B(i) == Bucket(i)
<1>1. PICK p : p = [i \in 1 .. l - k + 1 |-> B(k + i - 1)]  OBVIOUS
<1>2. PICK q : q = [i \in 1 .. l - (k + 1) + 1 |-> B((k + 1) + i - 1)]  OBVIOUS
<1>3. Buckets(k, l) = p /\ Buckets(k + 1, l) = q  BY <1>1, <1>2 DEF Buckets
<1>0. B(k) = Bucket(k)  OBVIOUS
<1> HIDE DEF B
<1>4. CASE k > l
  <2>1. 1 .. l - k + 1 = {}  BY <1>4
  <2>2. p = <<>>  BY <1>1, <2>1
  <2> QED  BY <1>3, <1>4, <2>2
<1>5. CASE k <= l
  <2>1. PICK n : n = l - k + 1  OBVIOUS
  <2>2. n \in Nat /\ n >= 1 /\ l - (k + 1) + 1 = n - 1  BY <1>5, <2>1
  <2>3. DOMAIN p = 1 .. n /\ \A i \in 1 .. n : p[i] = B(k + i - 1)  BY <1>1, <2>1
  <2>4. q = [i \in 1 .. n - 1 |-> B((k + 1) + i - 1)]  BY <1>2, <2>2
  <2>5. PICK V : V = {B(i) : i \in Nat}  OBVIOUS
  <2>6. p \in [1 .. n -> V]  BY <1>1, <2>1, <2>5
  <2>7. p \in Seq(V) /\ Len(p) = n /\ p # <<>>  BY <2>2, <2>6
  <2>8. Head(p) = p[1] /\ p[1] = B(k)  BY <2>2, <2>3, <2>7
  <2>9. Tail(p) = [i \in 1 .. n - 1 |-> p[i + 1]]
    <3>1. Tail(p) \in Seq(V) /\ Len(Tail(p)) = n - 1  BY <2>2, <2>7
    <3>2. DOMAIN Tail(p) = 1 .. n - 1  BY <3>1
    <3>3. \A i \in 1 .. n - 1 : Tail(p)[i] = p[i + 1]  BY <2>2, <2>7, <3>1
    <3>4. PICK tl : tl = Tail(p)  OBVIOUS
    <3>5. tl \in [1 .. n - 1 -> V]
      <4>1. tl \in Seq(V) /\ Len(tl) = n - 1  BY <3>1, <3>4
      <4>2. tl \in [1 .. Len(tl) -> V]  BY <4>1
      <4> QED  BY <4>1, <4>2
    <3>6. tl = [i \in 1 .. n - 1 |-> tl[i]]  BY <3>5
    <3> QED  BY <3>3, <3>4, <3>6
  <2>10. \A i \in 1 .. n - 1 : p[i + 1] = B((k + 1) + i - 1)
    <3>1. SUFFICES ASSUME NEW i \in 1 .. n - 1 PROVE p[i + 1] = B((k + 1) + i - 1)  OBVIOUS
    <3>2. i + 1 \in 1 .. n /\ k + (i + 1) - 1 = (k + 1) + i - 1  BY <2>2
    <3> QED  BY <2>3, <3>2
  <2>11. Tail(p) = q  BY <2>4, <2>9, <2>10
  <2> QED  BY <1>0, <1>3, <1>5, <2>7, <2>8, <2>11
<1> QED  BY <1>4, <1>5

\* A slice asks for the buckets from that of its begin on, and for those up to
\* that of the second in which it ends.
LEMMA AskedBuckets ==
  ASSUME ScanShape, SliceInv
  PROVE  /\ FirstBucket(slice.begin) \in Nat /\ LastBucket(slice.end) \in Nat
         /\ LastBucket(slice.end) <= BucketOf(slice.end)
         /\ \A t \in 0 .. Horizon : t >= slice.begin => FirstBucket(slice.begin) <= BucketOf(t)
         /\ \A t \in 0 .. Horizon : BucketOf(t) > LastBucket(slice.end) =>
              (Floor(slice.end) * Second) \div scan.size < BucketOf(t)
         /\ \A t \in 0 .. Horizon : BucketOf(t) \in Nat
<1>1. PICK d, h, c, b, e : d = scan.size /\ h = Horizon /\ c = Second /\ b = slice.begin /\ e = slice.end
  OBVIOUS
<1>2. d \in Nat \ {0} /\ h \in Nat /\ c \in Nat \ {0}  BY <1>1, ScanAssumption DEF ScanShape
<1>3. b \in Nat /\ e \in Nat  BY <1>1, SliceFacts DEF Sliced, SliceInv
<1>4. PICK f, g : f = (b \div c) * c /\ g = (e \div c) * c  OBVIOUS
<1>5. f \in Nat /\ f <= b
  <2>1. b \div c \in Nat /\ (b \div c) * c <= b  BY <1>2, <1>3
  <2>2. (b \div c) * c \in Nat  BY <1>2, <2>1
  <2> QED  BY <1>4, <2>1, <2>2
<1>6. g \in Nat /\ g <= e
  <2>1. e \div c \in Nat /\ (e \div c) * c <= e  BY <1>2, <1>3
  <2>2. (e \div c) * c \in Nat  BY <1>2, <2>1
  <2> QED  BY <1>4, <2>1, <2>2
<1>7. PICK m : m = IF g < h THEN g ELSE h  OBVIOUS
<1>8. m \in Nat /\ m <= g /\ m <= e /\ (m = g \/ m = h)  BY <1>2, <1>3, <1>6, <1>7
<1>9. FirstBucket(slice.begin) = f \div d /\ LastBucket(slice.end) = m \div d
      /\ (Floor(slice.end) * Second) \div scan.size = g \div d
  BY <1>1, <1>4, <1>7 DEF FirstBucket, LastBucket, Floor, Least
<1>10. \A x, y \in Nat : x <= y => x \div d \in Nat /\ x \div d <= y \div d
  BY <1>2
<1>11. ASSUME NEW t \in 0 .. h PROVE t \div d \in Nat
                                     /\ (t >= b => f \div d <= t \div d)
                                     /\ (t \div d > m \div d => g \div d < t \div d)
  <2>1. t \in Nat /\ t <= h  BY <1>2
  <2>2. t \div d \in Nat /\ t \div d <= h \div d  BY <1>2, <1>10, <2>1
  <2>3. t >= b => f \div d <= t \div d
    <3>1. SUFFICES ASSUME t >= b PROVE f <= t  BY <1>5, <1>10, <2>1
    <3> QED  BY <1>3, <1>5, <2>1, <3>1
  <2>4. t \div d > m \div d => g \div d < t \div d
    <3>1. SUFFICES ASSUME t \div d > m \div d PROVE m = g
      <4>1. m \div d \in Nat  BY <1>8, <1>10
      <4> QED  BY <2>2, <4>1
    <3>2. m # h
      <4>1. h \div d \in Nat  BY <1>2, <1>10
      <4> QED  BY <2>2, <3>1, <4>1
    <3> QED  BY <1>8, <3>2
  <2> QED  BY <2>2, <2>3, <2>4
<1>12. f \div d \in Nat /\ m \div d \in Nat /\ m \div d <= e \div d
  BY <1>3, <1>5, <1>8, <1>10
<1> QED  BY <1>1, <1>9, <1>11, <1>12 DEF BucketOf

\* A sample of a slice in a later bucket is none of those asked for.
LEMMA SamplesUnasked ==
  ASSUME ScanShape, SliceInv, NEW t \in 0 .. Horizon, slice.begin <= t, t < nextBegin,
         t <= scan.windows[slice.window][2], BucketOf(t) > LastBucket(slice.end)
  PROVE  t \in Unasked
<1>1. PICK a, b, d, w, e :
        a = scan.windows[slice.window][1] /\ b = scan.windows[slice.window][2] /\ d = scan.slice
        /\ w = slice.window /\ e = slice.end
  OBVIOUS
<1>2. Sliced(a, b)  BY <1>1, SliceFacts
<1>3. d \in Nat \ {0} /\ Horizon \in Nat /\ slice.begin \in Nat /\ t \in Nat /\ t <= Horizon
  BY <1>1, ScanAssumption DEF ScanShape, SliceInv
<1>4. PICK m \in Nat : slice.begin = a + m * d  BY <1>1 DEF SliceInv
<1>5. m <= m * d /\ (m + 1) * d = m * d + d /\ m * d \in Nat  BY <1>3
<1>6. PICK k : k = m + 1  OBVIOUS
<1>7. k \in 1 .. Horizon + 1
  <2>1. a \in Nat /\ m * d <= t  BY <1>2, <1>3, <1>4, <1>5 DEF Sliced
  <2> QED  BY <1>3, <1>5, <1>6, <2>1
<1>8. a + k * d = slice.begin + d
  <2>1. a \in Nat  BY <1>2 DEF Sliced
  <2> QED  BY <1>3, <1>4, <1>5, <1>6, <2>1
<1>9. slice = [window |-> w, begin |-> slice.begin,
               end |-> IF b - slice.begin < d THEN b ELSE slice.begin + d,
               final |-> (IF b - slice.begin < d THEN b ELSE slice.begin + d) = b]
  BY <1>1 DEF SliceInv, SliceAt
<1>10. e = IF b - slice.begin < d THEN b ELSE slice.begin + d  BY <1>1, <1>9
<1>11. Least(b, a + k * d) = e
  <2>1. b \in Nat /\ slice.begin + d \in Nat  BY <1>2, <1>3 DEF Sliced
  <2>2. slice.begin + d <= b \/ slice.begin + d > b  BY <2>1
  <2>3. slice.begin <= b  BY <1>1 DEF SliceInv
  <2>4. (IF b < slice.begin + d THEN b ELSE slice.begin + d) = e  BY <1>3, <1>10, <2>1, <2>2, <2>3
  <2> QED  BY <1>8, <2>4 DEF Least
<1>12. t <= e
  <2>1. slice.final => e = b  BY <1>1, <1>2 DEF Sliced
  <2>2. ~slice.final => nextBegin = e /\ e \in Nat  BY <1>1, <1>2 DEF Sliced
  <2> QED  BY <1>1, <1>3, <2>1, <2>2
<1>13. (Floor(e) * Second) \div scan.size < t \div scan.size
  BY <1>1, AskedBuckets DEF BucketOf
<1>14. w \in DOMAIN scan.windows  BY <1>1 DEF SliceInv
<1> QED  BY <1>1, <1>7, <1>11, <1>12, <1>13, <1>14 DEF Unasked

-----------------------------------------------------------------------------
(* The rows of a scan.                                                     *)

ScanRows == [window : Nat, begin : Nat, shard : Nat, t : Nat]

\* A row lies in its window, or in the bucket that reaches beyond it.
RowSound(r) ==
  /\ r.window \in DOMAIN scan.windows /\ r.shard \in Shards /\ r.t \in 0 .. Horizon
  /\ scan.kind # "series" => scan.windows[r.window][1] <= r.begin /\ r.begin <= r.t
  /\ scan.kind = "window" => r.t <= scan.windows[r.window][2]
  /\ scan.kind = "wide" => \/ r.t <= scan.windows[r.window][2]
                           \/ BucketOf(r.t) <= BucketOf(scan.windows[r.window][2])

\* It was handed out by the shard that is read or by an earlier one.
RowPast(r) ==
  \/ r.window < slice.window
  \/ r.window = slice.window /\ r.begin < slice.begin
  \/ r.window = slice.window /\ r.begin = slice.begin /\ r.shard <= current

RowsInv ==
  /\ result \in Seq(ScanRows)
  /\ \A i \in DOMAIN result : RowSound(result[i])
  /\ \A i \in DOMAIN result : RowPast(result[i])
  /\ \A i, j \in DOMAIN result : i < j => Precedes(result[i], result[j])

\* The rows of a slice of a window scan end before the next slice begins.
ApartInv ==
  scan.kind = "window" =>
    /\ \A i \in DOMAIN result : result[i].window = slice.window =>
         result[i].t < IF result[i].begin < slice.begin THEN slice.begin ELSE nextBegin
    /\ \A i, j \in DOMAIN result :
         result[i].window = result[j].window /\ result[i].begin < result[j].begin =>
           result[i].t < result[j].begin

\* What a scan has gone past is handed out, or was not asked for.
HasRow(s, t) == \E i \in DOMAIN result : result[i].shard = s /\ result[i].t = t
Passed(s, t) ==
  \E i \in DOMAIN scan.windows :
    /\ scan.windows[i][1] <= t /\ t <= scan.windows[i][2]
    /\ \/ i < slice.window
       \/ i = slice.window /\ t < slice.begin
       \/ i = slice.window /\ s < current /\ t < nextBegin
CompleteInv == \A s \in Shards, t \in 0 .. Horizon : Passed(s, t) => t \in Unasked \/ HasRow(s, t)

\* The reader goes to the end only when there is no other slice.
EndInv ==
  /\ caller = "done" => current > NumShards
  /\ current > NumShards => ~HasSlice(slice.window, nextBegin)

\* Shard s goes on with the bucket k.
ReadingPoints == {"opening", "reading", "ready", "end", "held"}
Reads(s, k) ==
  /\ groups[s].left = Buckets(k, LastBucket(slice.end))
  /\ FirstBucket(slice.begin) <= k
  /\ groups[s].at = "opening" => k = FirstBucket(slice.begin)
  /\ groups[s].at = "ready" => /\ FirstBucket(slice.begin) < k /\ k <= LastBucket(slice.end) + 1
                               /\ groups[s].page = Bucket(k - 1)
  /\ groups[s].at = "end" => k > LastBucket(slice.end)

\* The rows of shard s in this slice are those of the buckets before d.
HandedUpTo(s, d) ==
  /\ \A t \in 0 .. Horizon :
       InSlice(t) /\ FirstBucket(slice.begin) <= BucketOf(t) /\ BucketOf(t) < d => HasRow(s, t)
  /\ \A i \in DOMAIN result :
       result[i].window = slice.window /\ result[i].begin = slice.begin /\ result[i].shard = s =>
         BucketOf(result[i].t) < d

\* A page that waits is not handed out yet.
ReadsOn(s) == \E k \in Nat : Reads(s, k) /\ HandedUpTo(s, IF groups[s].at = "ready" THEN k - 1 ELSE k)
ReadInv == \A s \in Shards : s >= current /\ groups[s].at \in ReadingPoints => ReadsOn(s)

PlaceInv == ScanShape /\ SliceInv /\ RowsInv /\ ApartInv /\ CompleteInv
ExactInv == PlaceInv /\ EndInv /\ ReadInv

\* A step of a task, or of the caller between two pages, leaves the rows alone.
LEMMA PlaceStays ==
  ASSUME PlaceInv, UNCHANGED <<scan, slice, nextBegin, current, result>>
  PROVE  PlaceInv'
<1>1. ScanShape' /\ SliceInv'
  BY DEF PlaceInv, ScanShape, SliceInv, Normal, SliceAt, AfterSlice
<1>2. RowsInv'
  BY DEF PlaceInv, RowsInv, RowSound, RowPast, Precedes, Shards, BucketOf
<1>3. ApartInv'
  BY DEF PlaceInv, ApartInv
<1>4. CompleteInv'
  <2>1. Unasked' = Unasked  BY DEF Unasked, Least, Floor
  <2>2. \A s, t : Passed(s, t)' = Passed(s, t) /\ HasRow(s, t)' = HasRow(s, t)  BY DEF Passed, HasRow
  <2>3. Shards' = Shards  BY DEF Shards
  <2> QED  BY <2>1, <2>2, <2>3 DEF PlaceInv, CompleteInv
<1> QED  BY <1>1, <1>2, <1>3, <1>4 DEF PlaceInv

LEMMA EndStays ==
  ASSUME EndInv, UNCHANGED <<scan, slice, nextBegin, current>>, caller' = "done" => caller = "done"
  PROVE  EndInv'
BY DEF EndInv, HasSlice

\* So does it with what each shard has handed out.
LEMMA HandedStays ==
  ASSUME UNCHANGED <<scan, slice, current, result>>
  PROVE  /\ \A s, d : HandedUpTo(s, d)' = HandedUpTo(s, d)
         /\ FirstBucket(slice.begin)' = FirstBucket(slice.begin)
         /\ LastBucket(slice.end)' = LastBucket(slice.end)
         /\ \A k : Bucket(k)' = Bucket(k) /\ \A l : Buckets(k, l)' = Buckets(k, l)
<1>1. \A k : Bucket(k)' = Bucket(k)  BY DEF Bucket, Least
<1>2. \A k, l : Buckets(k, l)' = Buckets(k, l)  BY DEF Buckets, Bucket, Least
<1>3. FirstBucket(slice.begin)' = FirstBucket(slice.begin) /\ LastBucket(slice.end)' = LastBucket(slice.end)
  BY DEF FirstBucket, LastBucket, Floor, Least
<1>4. \A s, d : HandedUpTo(s, d)' = HandedUpTo(s, d)
  BY DEF HandedUpTo, HasRow, InSlice, BucketOf, FirstBucket, Floor
<1> QED  BY <1>1, <1>2, <1>3, <1>4

\* Shards that stay what they are read on where they are.
LEMMA ReadsStay ==
  ASSUME NEW s, ReadsOn(s), UNCHANGED <<scan, slice, current, result>>, groups'[s] = groups[s]
  PROVE  ReadsOn(s)'
<1>1. PICK k \in Nat : Reads(s, k) /\ HandedUpTo(s, IF groups[s].at = "ready" THEN k - 1 ELSE k)
  BY DEF ReadsOn
<1>2. Reads(s, k)'  BY <1>1, HandedStays DEF Reads
<1>3. HandedUpTo(s, IF groups[s].at = "ready" THEN k - 1 ELSE k)'  BY <1>1, HandedStays
<1> QED  BY <1>2, <1>3 DEF ReadsOn

\* One shard moves.
LEMMA MovedShard ==
  ASSUME ReadInv, UNCHANGED <<scan, slice, current, result>>, DOMAIN groups = Shards,
         NEW s \in Shards, NEW r, groups' = [groups EXCEPT ![s] = r],
         s >= current /\ groups'[s].at \in ReadingPoints => ReadsOn(s)'
  PROVE  ReadInv'
<1>1. \A q \in Shards : q # s => groups'[q] = groups[q]  OBVIOUS
<1>2. Shards' = Shards  BY DEF Shards
<1>3. ASSUME NEW q \in Shards, q >= current, groups'[q].at \in ReadingPoints PROVE ReadsOn(q)'
  <2>1. CASE q = s  BY <1>3, <2>1
  <2>2. CASE q # s
    <3>1. groups'[q] = groups[q]  BY <1>1, <2>2
    <3>2. ReadsOn(q)  BY <1>3, <3>1 DEF ReadInv
    <3> QED  BY <3>1, <3>2, ReadsStay
  <2> QED  BY <2>1, <2>2
<1> QED  BY <1>2, <1>3 DEF ReadInv

\* A shard that changes only its point, neither to nor from a page that waits.
LEMMA PointMoved ==
  ASSUME NEW s \in Shards, NEW p \in {"reading", "end"}, ReadsOn(s), groups[s].at # "ready",
         ScanTypes, UNCHANGED <<scan, slice, current, result>>, SetShard(s, p),
         p = "end" => groups[s].left = <<>>, ScanShape, SliceInv
  PROVE  ReadsOn(s)'
<1>0. groups[s] = [at |-> groups[s].at, left |-> groups[s].left, page |-> groups[s].page] /\ DOMAIN groups = Shards
  BY DEF ScanTypes
<1>1. groups'[s].at = p /\ groups'[s].left = groups[s].left  BY <1>0 DEF SetShard
<1>2. PICK k \in Nat : Reads(s, k) /\ HandedUpTo(s, k)  BY DEF ReadsOn
<1>3. p = "end" => k > LastBucket(slice.end)
  BY <1>2, AskedBuckets, NextBucket DEF Reads
<1>4. Reads(s, k)'  BY <1>1, <1>2, <1>3, HandedStays DEF Reads
<1>5. HandedUpTo(s, k)'  BY <1>2, HandedStays
<1> QED  BY <1>1, <1>4, <1>5 DEF ReadsOn

\* The tasks, and the destructor.
LEMMA ExactTask ==
  ASSUME ScanInv, ExactInv, NEW s \in Shards, Acquire(s) \/ Pull(s) \/ PullFails(s) \/ Drain(s)
  PROVE  ExactInv'
<1>0. ScanTypes /\ PlaceInv /\ EndInv /\ ReadInv /\ ScanShape /\ SliceInv
  BY DEF ScanInv, ExactInv, PlaceInv
<1>1. UNCHANGED <<scan, slice, nextBegin, current, caller, result>>
  BY DEF Acquire, Pull, PullFails, Drain
<1>2. PlaceInv' /\ EndInv'  BY <1>0, <1>1, PlaceStays, EndStays
<1>3. groups[s] = [at |-> groups[s].at, left |-> groups[s].left, page |-> groups[s].page] /\ DOMAIN groups = Shards
  BY <1>0 DEF ScanTypes
<1>4. ASSUME Acquire(s) PROVE ReadInv'
  <2>1. SetShard(s, "reading") /\ groups[s].at = "opening"  BY <1>4 DEF Acquire
  <2>2. s >= current => ReadsOn(s)  BY <1>0, <2>1 DEF ReadInv, ReadingPoints
  <2>3. s >= current => ReadsOn(s)'  BY <1>0, <1>1, <2>1, <2>2, PointMoved
  <2>4. groups' = [groups EXCEPT ![s] = [groups[s] EXCEPT !.at = "reading"]]  BY <2>1 DEF SetShard
  <2> QED  BY <1>0, <1>1, <1>3, <2>3, <2>4, MovedShard
<1>5. ASSUME Pull(s) PROVE ReadInv'
  <2>1. groups[s].at = "reading"  BY <1>5 DEF Pull
  <2>2. s >= current => ReadsOn(s)  BY <1>0, <2>1 DEF ReadInv, ReadingPoints
  <2>3. CASE groups[s].left = <<>> /\ SetShard(s, "end")
    <3>1. s >= current => ReadsOn(s)'  BY <1>0, <1>1, <2>1, <2>2, <2>3, PointMoved
    <3>2. groups' = [groups EXCEPT ![s] = [groups[s] EXCEPT !.at = "end"]]  BY <2>3 DEF SetShard
    <3> QED  BY <1>0, <1>1, <1>3, <3>1, <3>2, MovedShard
  <2>4. CASE /\ groups[s].left # <<>>
             /\ groups' = [groups EXCEPT ![s] = [at |-> "ready", left |-> Tail(@.left), page |-> Head(@.left)]]
    <3>1. PICK r : r = [at |-> "ready", left |-> Tail(groups[s].left), page |-> Head(groups[s].left)]
      OBVIOUS
    <3>2. groups' = [groups EXCEPT ![s] = r] /\ groups'[s] = r  BY <1>3, <2>4, <3>1
    <3>3. ASSUME s >= current PROVE ReadsOn(s)'
      <4>1. PICK k \in Nat : Reads(s, k) /\ HandedUpTo(s, k)  BY <2>1, <2>2, <3>3 DEF ReadsOn
      <4>2. PICK f, l : f = FirstBucket(slice.begin) /\ l = LastBucket(slice.end)  OBVIOUS
      <4>3. f \in Nat /\ l \in Nat  BY <1>0, <4>2, AskedBuckets
      <4>4. groups[s].left = Buckets(k, l) /\ f <= k  BY <4>1, <4>2 DEF Reads
      <4>5. ~(k > l)  BY <2>4, <4>3, <4>4, NextBucket
      <4>6. r.at = "ready" /\ r.left = Buckets(k + 1, l) /\ r.page = Bucket(k)
        <5>1. k <= l  BY <4>3, <4>5
        <5> QED  BY <3>1, <4>3, <4>4, <5>1, NextBucket
      <4>7. f < k + 1 /\ f <= k + 1 /\ k + 1 <= l + 1 /\ (k + 1) - 1 = k /\ k + 1 \in Nat
        BY <4>3, <4>4, <4>5
      <4>8. Reads(s, k + 1)'
        BY <1>1, <3>2, <4>2, <4>6, <4>7, HandedStays DEF Reads
      <4>9. HandedUpTo(s, k)'  BY <1>1, <4>1, HandedStays
      <4>10. HandedUpTo(s, IF groups[s].at = "ready" THEN (k + 1) - 1 ELSE k + 1)'
        BY <3>2, <4>6, <4>7, <4>9
      <4> QED  BY <4>7, <4>8, <4>10 DEF ReadsOn
    <3> QED  BY <1>0, <1>1, <1>3, <3>2, <3>3, MovedShard
  <2> QED  BY <1>5, <2>3, <2>4 DEF Pull
<1>6. ASSUME PullFails(s) PROVE ReadInv'
  <2>1. groups' = [groups EXCEPT ![s] = [groups[s] EXCEPT !.at = "error"]]  BY <1>6 DEF PullFails, SetShard
  <2>2. groups'[s].at = "error"  BY <1>3, <2>1
  <2>3. groups'[s].at \notin ReadingPoints  BY <2>2 DEF ReadingPoints
  <2> QED  BY <1>0, <1>1, <1>3, <2>1, <2>3, MovedShard
<1>7. ASSUME Drain(s) PROVE ReadInv'
  <2>1. groups' = [groups EXCEPT ![s] = Gone]  BY <1>7 DEF Drain
  <2>2. groups'[s].at = "gone"  BY <1>3, <2>1 DEF Gone
  <2>3. groups'[s].at \notin ReadingPoints  BY <2>2 DEF ReadingPoints
  <2> QED  BY <1>0, <1>1, <1>3, <2>1, <2>3, MovedShard
<1>8. ReadInv'  BY <1>4, <1>5, <1>6, <1>7
<1> QED  BY <1>2, <1>8 DEF ExactInv
\* The caller of next() between two pages.
LEMMA ExactCaller ==
  ASSUME ScanInv, ScanBounds, ExactInv,
         \/ Exhausted \/ ThrowIfCancelled \/ GetError \/ Close \/ Drained \/ RequestCancel
         \/ UNCHANGED scanVars
  PROVE  ExactInv'
<1>0. ScanTypes /\ PlaceInv /\ EndInv /\ ReadInv
  BY DEF ScanInv, ExactInv
<1>1. UNCHANGED <<scan, slice, nextBegin, current, result, groups>>
  BY DEF Exhausted, ThrowIfCancelled, GetError, Close, Drained, RequestCancel, scanVars
<1>2. PlaceInv'  BY <1>0, <1>1, PlaceStays
<1>3. caller' = "done" => caller = "done" \/ AtEnd
  BY DEF Exhausted, ThrowIfCancelled, GetError, Close, Drained, RequestCancel, scanVars
<1>4. EndInv'
  <2>1. current > NumShards => ~HasSlice(slice.window, nextBegin)'
    BY <1>0, <1>1 DEF EndInv, HasSlice
  <2>2. caller' = "done" => current > NumShards
    BY <1>0, <1>3 DEF EndInv, AtEnd
  <2> QED  BY <1>1, <2>1, <2>2 DEF EndInv
<1>5. ReadInv'
  <2>1. Shards' = Shards  BY DEF Shards
  <2>2. ASSUME NEW s \in Shards, s >= current, groups[s].at \in ReadingPoints PROVE ReadsOn(s)'
    <3>1. ReadsOn(s)  BY <1>0, <2>2 DEF ReadInv
    <3> QED  BY <1>1, <3>1, ReadsStay
  <2> QED  BY <1>1, <2>1, <2>2 DEF ReadInv
<1> QED  BY <1>2, <1>4, <1>5 DEF ExactInv

\* next() schedules a pull of the current shard.
LEMMA ExactSchedule ==
  ASSUME ScanInv, ScanBounds, ExactInv, ScheduleNext
  PROVE  ExactInv'
<1>0. ScanTypes /\ PlaceInv /\ EndInv /\ ReadInv /\ ScanShape /\ SliceInv
  BY DEF ScanInv, ExactInv, PlaceInv
<1>1. UNCHANGED <<scan, slice, nextBegin, current, result>> /\ caller' = "get" /\ ~AtEnd
  BY DEF ScheduleNext
<1>2. PlaceInv' /\ EndInv'  BY <1>0, <1>1, PlaceStays, EndStays
<1>3. current \in Shards /\ DOMAIN groups = Shards
  BY <1>0, <1>1 DEF ScanTypes, AtEnd, Shards, ScanBounds
<1>4. ReadInv'
  <2>1. CASE groups[current].at = "held"
    <3>1. SetShard(current, "reading")  BY <2>1 DEF ScheduleNext
    <3>2. ReadsOn(current)
      <4>1. current >= current  BY <1>0 DEF ScanTypes, ScanBounds
      <4> QED  BY <1>0, <1>3, <2>1, <4>1 DEF ReadInv, ReadingPoints
    <3>3. ASSUME NEW s \in Shards, s = current PROVE ReadsOn(s)'
      BY <1>0, <1>1, <2>1, <3>1, <3>2, <3>3, PointMoved
    <3>4. groups' = [groups EXCEPT ![current] = [groups[current] EXCEPT !.at = "reading"]]
      BY <3>1 DEF SetShard
    <3> QED  BY <1>0, <1>1, <1>3, <3>3, <3>4, MovedShard
  <2>2. CASE groups[current].at # "held"
    <3>1. groups' = groups  BY <2>2 DEF ScheduleNext
    <3>2. Shards' = Shards  BY DEF Shards
    <3>3. ASSUME NEW s \in Shards, s >= current, groups[s].at \in ReadingPoints PROVE ReadsOn(s)'
      <4>1. ReadsOn(s)  BY <1>0, <3>3 DEF ReadInv
      <4> QED  BY <1>1, <3>1, <4>1, ReadsStay
    <3> QED  BY <1>1, <3>1, <3>2, <3>3 DEF ReadInv
  <2> QED  BY <2>1, <2>2
<1> QED  BY <1>2, <1>4 DEF ExactInv

\* rows are those of result and those of the first m samples of a page.
Adds(rows, page, m) ==
  /\ rows \in Seq(ScanRows) /\ Len(result) <= Len(rows)
  /\ \A i \in 1 .. Len(result) : rows[i] = result[i]
  /\ \A i \in DOMAIN rows : i > Len(result) => \E j \in 1 .. m : InSlice(page[j]) /\ rows[i] = Row(page[j])
  /\ \A i, j \in DOMAIN rows : i < j /\ i > Len(result) => rows[i].t < rows[j].t
  /\ \A j \in 1 .. m : InSlice(page[j]) => \E i \in DOMAIN rows : rows[i] = Row(page[j])

\* One more.
LEMMA AddsOne ==
  ASSUME result \in Seq(ScanRows), slice.window \in Nat, slice.begin \in Nat, current \in Nat,
         NEW page, NEW n \in Nat, \A j \in 1 .. n : page[j] \in Nat,
         \A i, j \in 1 .. n : i < j => page[i] < page[j],
         NEW m \in Nat, m + 1 <= n, NEW rows, Adds(rows, page, m)
  PROVE  Adds(Filtered(rows, page[m + 1]), page, m + 1)
<1>1. PICK t, l, z, r : t = page[m + 1] /\ l = Len(result) /\ z = Len(rows) /\ r = Row(page[m + 1])
  OBVIOUS
<1>2. m + 1 \in 1 .. n /\ t \in Nat  BY <1>1
<1>3. r \in ScanRows /\ r.t = t  BY <1>1, <1>2 DEF Row, ScanRows
<1>4. /\ rows \in Seq(ScanRows) /\ l \in Nat /\ z \in Nat /\ l <= z /\ DOMAIN rows = 1 .. z
      /\ \A i \in 1 .. l : rows[i] = result[i]
  BY <1>1 DEF Adds
<1>5. \A j \in 1 .. m : j \in 1 .. m + 1 /\ j \in 1 .. n /\ j < m + 1  OBVIOUS
<1>6. \A j \in 1 .. m + 1 : j = m + 1 \/ j \in 1 .. m  OBVIOUS
<1>7. CASE ~InSlice(t)
  <2>1. Filtered(rows, t) = rows  BY <1>7 DEF Filtered
  <2>2. \A i \in DOMAIN rows : i > l => \E j \in 1 .. m + 1 : InSlice(page[j]) /\ rows[i] = Row(page[j])
    BY <1>1, <1>5 DEF Adds
  <2>3. \A j \in 1 .. m + 1 : InSlice(page[j]) => \E i \in DOMAIN rows : rows[i] = Row(page[j])
    BY <1>1, <1>6, <1>7 DEF Adds
  <2>4. Adds(rows, page, m + 1)
    BY <1>1, <1>4, <2>2, <2>3 DEF Adds
  <2> QED  BY <1>1, <2>1, <2>4
<1>8. CASE InSlice(t)
  <2>1. PICK q : q = Append(rows, r)  OBVIOUS
  <2>2. Filtered(rows, t) = q  BY <1>1, <1>8, <2>1 DEF Filtered
  <2>3. /\ q \in Seq(ScanRows) /\ Len(q) = z + 1 /\ DOMAIN q = 1 .. z + 1 /\ q[z + 1] = r
        /\ \A i \in 1 .. z : q[i] = rows[i] /\ i \in 1 .. z + 1
    BY <1>1, <1>3, <1>4, <2>1
  <2>4. \A i \in 1 .. z + 1 : i = z + 1 \/ i \in 1 .. z  BY <1>4
  <2>5. \A i \in 1 .. l : q[i] = result[i] /\ i \in 1 .. z  BY <1>4, <2>3
  <2>6. ASSUME NEW i \in DOMAIN q, i > l
        PROVE  \E j \in 1 .. m + 1 : InSlice(page[j]) /\ q[i] = Row(page[j])
    <3>1. CASE i = z + 1  BY <1>1, <1>5, <1>8, <2>3, <3>1
    <3>2. CASE i \in 1 .. z
      <4>1. PICK j \in 1 .. m : InSlice(page[j]) /\ rows[i] = Row(page[j])
        BY <1>1, <1>4, <2>6, <3>2 DEF Adds
      <4> QED  BY <1>5, <2>3, <3>2, <4>1
    <3> QED  BY <2>3, <2>4, <3>1, <3>2
  <2>7. ASSUME NEW i \in DOMAIN q, NEW j \in DOMAIN q, i < j, i > l PROVE q[i].t < q[j].t
    <3>1. i \in 1 .. z  BY <1>4, <2>3, <2>7
    <3>2. CASE j \in 1 .. z
      <4>1. rows[i].t < rows[j].t  BY <1>1, <1>4, <2>7, <3>1, <3>2 DEF Adds
      <4> QED  BY <2>3, <3>1, <3>2, <4>1
    <3>3. CASE j = z + 1
      <4>1. PICK k \in 1 .. m : rows[i] = Row(page[k])
        BY <1>1, <1>4, <2>7, <3>1 DEF Adds
      <4>2. page[k] < t  BY <1>1, <1>2, <1>5, <4>1
      <4>3. rows[i].t = page[k]  BY <4>1 DEF Row
      <4> QED  BY <1>3, <2>3, <3>1, <3>3, <4>2, <4>3
    <3> QED  BY <2>3, <2>4, <3>2, <3>3
  <2>8. ASSUME NEW j \in 1 .. m + 1, InSlice(page[j]) PROVE \E i \in DOMAIN q : q[i] = Row(page[j])
    <3>1. CASE j = m + 1
      <4>1. z + 1 \in DOMAIN q /\ q[z + 1] = Row(page[j])  BY <1>1, <1>4, <2>3, <3>1
      <4> QED  BY <4>1
    <3>2. CASE j \in 1 .. m
      <4>1. PICK i \in DOMAIN rows : rows[i] = Row(page[j])  BY <2>8, <3>2 DEF Adds
      <4> QED  BY <1>4, <2>3, <4>1
    <3> QED  BY <1>6, <3>1, <3>2
  <2>9. l <= Len(q)  BY <1>4, <2>3
  <2>10. Adds(q, page, m + 1)
    BY <1>1, <2>3, <2>5, <2>6, <2>7, <2>8, <2>9 DEF Adds
  <2> QED  BY <1>1, <2>2, <2>10
<1> QED  BY <1>7, <1>8

\* The whole page.
LEMMA AddsPage ==
  ASSUME result \in Seq(ScanRows), slice.window \in Nat, slice.begin \in Nat, current \in Nat,
         NEW page, NEW k, Holds(page, k), NEW n \in Nat, DOMAIN page = 1 .. n
  PROVE  Adds(FoldLeft(Filtered, result, page), page, n)
<1>1. /\ \A j \in 1 .. n : page[j] \in Nat
      /\ \A i, j \in 1 .. n : i < j => page[i] < page[j]
  <2>1. Horizon \in Nat  BY ScanAssumption
  <2>2. /\ \A j \in DOMAIN page : page[j] \in 0 .. Horizon
        /\ \A i, j \in DOMAIN page : i < j => page[i] < page[j]
    BY DEF Holds
  <2>3. \A x \in 0 .. Horizon : x \in Nat  BY <2>1
  <2> QED  BY <2>2, <2>3
<1>2. PICK acc : Filters(acc, result, page, n)  BY FilterUnfolds
<1>3. PICK S : S = {m \in Nat : m <= n => Adds(acc[m], page, m)}  OBVIOUS
<1>4. 0 \in S
  <2>1. acc[0] = result  BY <1>2 DEF Filters
  <2>2. \A i \in DOMAIN result : ~(i > Len(result))  OBVIOUS
  <2>3. 1 .. 0 = {} /\ Len(result) <= Len(result)  OBVIOUS
  <2>4. Adds(result, page, 0)  BY <2>2, <2>3 DEF Adds
  <2> QED  BY <1>3, <2>1, <2>4
<1>5. ASSUME NEW m \in Nat, m \in S PROVE m + 1 \in S
  <2>1. SUFFICES ASSUME m + 1 <= n PROVE Adds(acc[m + 1], page, m + 1)  BY <1>3
  <2>2. Adds(acc[m], page, m)  BY <1>3, <1>5, <2>1
  <2>3. acc[m + 1] = Filtered(acc[m], page[m + 1])
    <3>1. m + 1 \in 1 .. n /\ (m + 1) - 1 = m  BY <2>1
    <3> QED  BY <1>2, <3>1 DEF Filters
  <2>4. Adds(Filtered(acc[m], page[m + 1]), page, m + 1)
    BY <1>1, <2>1, <2>2, AddsOne
  <2> QED  BY <2>3, <2>4
<1>6. Nat \subseteq S  BY <1>4, <1>5, SetInduction
<1>7. Adds(acc[n], page, n)  BY <1>3, <1>6
<1> QED  BY <1>2, <1>7 DEF Filters
\* next() takes a page of the current shard.
LEMMA ExactBatch ==
  ASSUME ScanInv, ScanBounds, ExactInv, GetBatch
  PROVE  ExactInv'
<1>0. /\ ScanTypes /\ CallerInv /\ PlaceInv /\ EndInv /\ ReadInv /\ ScanShape /\ SliceInv /\ RowsInv
      /\ ApartInv /\ CompleteInv
  BY DEF ScanInv, ExactInv, PlaceInv
<1>1. /\ UNCHANGED <<scan, slice, nextBegin, current>> /\ caller' = "idle" /\ caller = "get"
      /\ groups[current].at = "ready"
      /\ result' = FoldLeft(Filtered, result, groups[current].page)
      /\ groups' = [groups EXCEPT ![current] = [at |-> "held", left |-> groups[current].left, page |-> <<>>]]
  BY DEF GetBatch
<1>2. current \in Shards /\ DOMAIN groups = Shards /\ current \in Nat /\ Shards = 1 .. NumShards
      /\ NumShards \in Nat /\ Shards' = Shards
  BY <1>0, <1>1 DEF ScanTypes, CallerInv, Shards, ScanBounds
<1>3. ReadsOn(current)
  <2>1. current >= current  BY <1>2
  <2> QED  BY <1>0, <1>1, <1>2, <2>1 DEF ReadInv, ReadingPoints
<1>4. PICK k \in Nat : Reads(current, k) /\ HandedUpTo(current, k - 1)
  BY <1>1, <1>3 DEF ReadsOn
<1>5. PICK f, e, p, a, b, w :
        /\ f = FirstBucket(slice.begin) /\ e = LastBucket(slice.end) /\ p = groups[current].page
        /\ w = slice.window /\ a = scan.windows[w][1] /\ b = scan.windows[w][2]
  OBVIOUS
<1>6. /\ groups[current].left = Buckets(k, e) /\ f < k /\ k <= e + 1 /\ p = Bucket(k - 1)
      /\ f \in Nat /\ e \in Nat /\ e <= BucketOf(slice.end)
      /\ \A t \in 0 .. Horizon : BucketOf(t) \in Nat
  BY <1>0, <1>1, <1>4, <1>5, AskedBuckets DEF Reads
<1>7. k - 1 \in Nat  BY <1>6
<1>8. Holds(p, k - 1)  BY <1>0, <1>6, <1>7, BucketHolds
<1>9. PICK n \in Nat : DOMAIN p = 1 .. n  BY <1>8 DEF Holds
<1>10. w \in DOMAIN scan.windows /\ w \in Nat /\ slice.begin \in Nat /\ Sliced(a, b)
  BY <1>0, <1>5, WindowFacts, SliceFacts DEF SliceInv
<1>11. PICK z : z = Len(result)  OBVIOUS
<1>12. result \in Seq(ScanRows) /\ z \in Nat /\ DOMAIN result = 1 .. z
  BY <1>0, <1>11 DEF RowsInv
<1>13. Adds(result', p, n)  BY <1>1, <1>5, <1>8, <1>9, <1>10, <1>2, <1>12, AddsPage
<1>14. /\ result' \in Seq(ScanRows) /\ z <= Len(result') /\ DOMAIN result' = 1 .. Len(result')
       /\ Len(result') \in Nat
       /\ \A i \in 1 .. z : result'[i] = result[i] /\ i \in DOMAIN result'
  BY <1>11, <1>12, <1>13 DEF Adds
<1>15. \A i \in DOMAIN result' : i \in 1 .. z \/ i > z
  BY <1>12, <1>14
\* A new row.
<1>16. ASSUME NEW i \in DOMAIN result', i > z
       PROVE  /\ result'[i].window = w /\ result'[i].begin = slice.begin /\ result'[i].shard = current
              /\ result'[i].t \in 0 .. Horizon /\ BucketOf(result'[i].t) = k - 1 /\ InSlice(result'[i].t)
  <2>1. PICK j \in 1 .. n : InSlice(p[j]) /\ result'[i] = Row(p[j])
    BY <1>11, <1>13, <1>16 DEF Adds
  <2>2. p[j] \in 0 .. Horizon /\ BucketOf(p[j]) = k - 1  BY <1>8, <1>9, <2>1 DEF Holds
  <2> QED  BY <1>5, <2>1, <2>2 DEF Row
<1>17. ASSUME NEW t, InSlice(t), t \in 0 .. Horizon, BucketOf(t) = k - 1
       PROVE  /\ scan.kind # "series" => slice.begin <= t
              /\ scan.kind = "window" => t <= b /\ t < nextBegin
              /\ scan.kind = "wide" => t <= b \/ BucketOf(t) <= BucketOf(b)
  <2>0. t \in Nat /\ slice.begin \in Nat /\ slice.end \in Nat /\ b \in Nat /\ nextBegin \in Nat
    BY <1>10, <1>17, ScanAssumption DEF Sliced
  <2>1. scan.kind # "series" => slice.begin <= t
    BY <1>17, <2>0 DEF InSlice
  <2>2. CASE slice.final
    <3>1. slice.end = b /\ nextBegin = b + 1  BY <1>10, <2>2 DEF Sliced
    <3>2. scan.kind = "window" => t <= b  BY <1>17, <2>2, <3>1 DEF InSlice
    <3>3. BucketOf(t) <= BucketOf(b)
      <4>1. BucketOf(t) \in Nat /\ BucketOf(t) <= e  BY <1>6, <1>17
      <4>2. e <= BucketOf(b)  BY <1>6, <3>1
      <4>3. BucketOf(b) \in Nat
        <5>1. scan.size \in Nat \ {0}  BY <1>0 DEF ScanShape
        <5> QED  BY <2>0, <5>1 DEF BucketOf
      <4> QED  BY <1>6, <4>1, <4>2, <4>3
    <3> QED  BY <2>0, <2>1, <3>1, <3>2, <3>3
  <2>3. CASE ~slice.final
    <3>1. nextBegin = slice.end /\ slice.end < b  BY <1>10, <2>3 DEF Sliced
    <3>2. scan.kind # "series" => t < slice.end  BY <1>17, <2>3 DEF InSlice
    <3> QED  BY <2>0, <2>1, <3>1, <3>2
  <2> QED  BY <2>2, <2>3
\* Types and order.
<1>18. \A i \in 1 .. z : /\ RowSound(result[i]) /\ RowPast(result[i])
                         /\ result[i].window \in Nat /\ result[i].begin \in Nat /\ result[i].shard \in Nat
                         /\ result[i].t \in 0 .. Horizon
  <2>1. \A i \in 1 .. z : RowSound(result[i]) /\ RowPast(result[i]) /\ result[i] \in ScanRows
    BY <1>0, <1>12 DEF RowsInv
  <2> QED  BY <2>1 DEF ScanRows, RowSound
<1>19. \A r : RowSound(r)' = RowSound(r) /\ RowPast(r)' = RowPast(r)
  BY <1>1 DEF RowSound, RowPast, Shards, BucketOf
<1>20. ASSUME NEW i \in DOMAIN result', NEW r, r = result'[i] PROVE RowSound(r)' /\ RowPast(r)'
  <2>1. CASE i \in 1 .. z  BY <1>14, <1>18, <1>19, <1>20, <2>1
  <2>2. CASE i > z
    <3>2. /\ r.window = w /\ r.begin = slice.begin /\ r.shard = current
          /\ r.t \in 0 .. Horizon /\ BucketOf(r.t) = k - 1 /\ InSlice(r.t)
      BY <1>16, <1>20, <2>2
    <3>3. RowPast(r)  BY <1>2, <1>5, <3>2 DEF RowPast
    <3>4. a <= slice.begin  BY <1>10 DEF Sliced
    <3>5. RowSound(r)  BY <1>2, <1>5, <1>10, <1>17, <3>2, <3>4 DEF RowSound
    <3> QED  BY <1>19, <3>3, <3>5
  <2> QED  BY <1>15, <2>1, <2>2
<1>21. ASSUME NEW i \in DOMAIN result', NEW j \in DOMAIN result', i < j
       PROVE  Precedes(result'[i], result'[j])
  <2>1. CASE j \in 1 .. z
    <3>1. i \in 1 .. z  BY <1>12, <1>14, <1>21, <2>1
    <3>2. Precedes(result[i], result[j])  BY <1>0, <1>12, <1>21, <2>1, <3>1 DEF RowsInv
    <3> QED  BY <1>14, <2>1, <3>1, <3>2
  <2>2. CASE i \in 1 .. z /\ j > z
    <3>1. PICK r, s : r = result'[i] /\ s = result'[j]  OBVIOUS
    <3>2. /\ s.window = w /\ s.begin = slice.begin /\ s.shard = current
          /\ s.t \in 0 .. Horizon /\ BucketOf(s.t) = k - 1
      BY <1>16, <2>2, <3>1
    <3>3. r = result[i] /\ RowPast(r) /\ r.shard \in Nat /\ r.t \in 0 .. Horizon
      BY <1>14, <1>18, <2>2, <3>1
    <3>4. ASSUME r.window = w, r.begin = slice.begin, ~(r.shard < current) PROVE r.shard = current /\ r.t < s.t
      <4>1. r.shard <= current  BY <1>5, <1>10, <3>3, <3>4 DEF RowPast
      <4>2. r.shard = current  BY <1>2, <3>3, <3>4, <4>1
      <4>3. BucketOf(r.t) < k - 1
        BY <1>4, <1>5, <1>12, <2>2, <3>3, <3>4, <4>2 DEF HandedUpTo
      <4>4. PICK d, x, y : d = scan.size /\ x = r.t /\ y = s.t  OBVIOUS
      <4>5. d \in Nat \ {0} /\ x \in Nat /\ y \in Nat /\ x \div d < y \div d
        <5>1. d \in Nat \ {0}  BY <1>0, <4>4 DEF ScanShape
        <5>2. x \in Nat /\ y \in Nat  BY <3>2, <3>3, <4>4, ScanAssumption
        <5> QED  BY <3>2, <4>3, <4>4, <5>1, <5>2 DEF BucketOf
      <4>6. x < y  BY <4>5
      <4> QED  BY <4>2, <4>4, <4>6
    <3>5. Precedes(r, s)  BY <1>5, <3>2, <3>3, <3>4 DEF RowPast, Precedes
    <3> QED  BY <3>1, <3>5
  <2>3. CASE i > z /\ j > z
    <3>1. result'[i].t < result'[j].t  BY <1>11, <1>13, <1>21, <2>3 DEF Adds
    <3> QED  BY <1>16, <2>3, <3>1 DEF Precedes
  <2>4. j > z => i \in 1 .. z \/ i > z  BY <1>15
  <2> QED  BY <1>15, <2>1, <2>2, <2>3, <2>4
<1>22. RowsInv'
  <2>1. \A i \in DOMAIN result' : RowSound(result[i])'  BY <1>20 DEF RowSound
  <2>2. \A i \in DOMAIN result' : RowPast(result[i])'  BY <1>20 DEF RowPast
  <2> QED  BY <1>14, <1>21, <2>1, <2>2 DEF RowsInv, Precedes, RowSound, RowPast
\* The slices of a window.
<1>23. ApartInv'
  <2>1. SUFFICES ASSUME scan.kind = "window"
                 PROVE  /\ \A i \in DOMAIN result' : result'[i].window = w =>
                             result'[i].t < IF result'[i].begin < slice.begin THEN slice.begin ELSE nextBegin
                        /\ \A i, j \in DOMAIN result' :
                             result'[i].window = result'[j].window /\ result'[i].begin < result'[j].begin =>
                               result'[i].t < result'[j].begin
    BY <1>1, <1>5 DEF ApartInv
  <2>2. /\ \A i \in 1 .. z : result[i].window = w =>
             result[i].t < IF result[i].begin < slice.begin THEN slice.begin ELSE nextBegin
        /\ \A i, j \in 1 .. z : result[i].window = result[j].window /\ result[i].begin < result[j].begin =>
             result[i].t < result[j].begin
    BY <1>0, <1>5, <1>12, <2>1 DEF ApartInv
  <2>3. ASSUME NEW i \in DOMAIN result', result'[i].window = w
        PROVE  result'[i].t < IF result'[i].begin < slice.begin THEN slice.begin ELSE nextBegin
    <3>1. CASE i \in 1 .. z  BY <1>14, <2>2, <2>3, <3>1
    <3>2. CASE i > z
      <4>1. result'[i].begin = slice.begin /\ result'[i].t < nextBegin  BY <1>16, <1>17, <2>1, <3>2
      <4> QED  BY <1>10, <4>1
    <3> QED  BY <1>15, <3>1, <3>2
  <2>4. ASSUME NEW i \in DOMAIN result', NEW j \in DOMAIN result',
               result'[i].window = result'[j].window, result'[i].begin < result'[j].begin
        PROVE  result'[i].t < result'[j].begin
    <3>1. CASE i \in 1 .. z /\ j \in 1 .. z
      <4>1. result'[i] = result[i] /\ result'[j] = result[j]  BY <1>14, <3>1
      <4> QED  BY <2>2, <2>4, <3>1, <4>1
    <3>2. CASE j > z
      <4>1. result'[j].window = w /\ result'[j].begin = slice.begin  BY <1>16, <3>2
      <4> QED  BY <2>3, <2>4, <4>1
    <3>3. CASE i > z /\ j \in 1 .. z
      <4>1. result'[i].window = w /\ result'[i].begin = slice.begin  BY <1>16, <3>3
      <4>2. RowPast(result[j]) /\ result'[j] = result[j] /\ result[j].begin \in Nat
        BY <1>14, <1>18, <3>3
      <4>3. result[j].window = w /\ slice.begin < result[j].begin  BY <2>4, <4>1, <4>2
      <4> QED  BY <1>5, <1>10, <4>2, <4>3 DEF RowPast
    <3> QED  BY <1>15, <3>1, <3>2, <3>3
  <2> QED  BY <2>3, <2>4
\* Rows are only added.
<1>24. \A s, t : HasRow(s, t) => HasRow(s, t)'
  <2>1. ASSUME NEW s, NEW t, HasRow(s, t) PROVE \E i \in DOMAIN result' : result'[i].shard = s /\ result'[i].t = t
    <3>1. PICK i \in 1 .. z : result[i].shard = s /\ result[i].t = t  BY <1>12, <2>1 DEF HasRow
    <3> QED  BY <1>14, <3>1
  <2> QED  BY <2>1 DEF HasRow
<1>25. CompleteInv'
  <2>1. Unasked' = Unasked  BY <1>1 DEF Unasked, Least, Floor
  <2>2. \A s, t : Passed(s, t)' = Passed(s, t)  BY <1>1 DEF Passed
  <2> QED  BY <1>0, <1>2, <1>24, <2>1, <2>2 DEF CompleteInv
<1>26. ScanShape' /\ SliceInv'  BY <1>0, <1>1 DEF ScanShape, SliceInv, Normal, SliceAt, AfterSlice
<1>27. EndInv'  BY <1>0, <1>1 DEF EndInv, HasSlice
\* Where the shards are.
<1>28. \A s \in Shards : s # current => groups'[s] = groups[s]  BY <1>1
<1>29. groups'[current] = [at |-> "held", left |-> groups[current].left, page |-> <<>>]  BY <1>1, <1>2
<1>30. /\ FirstBucket(slice.begin)' = f /\ LastBucket(slice.end)' = e
       /\ \A m : Bucket(m)' = Bucket(m) /\ \A l : Buckets(m, l)' = Buckets(m, l)
       /\ \A t : InSlice(t)' = InSlice(t) /\ BucketOf(t)' = BucketOf(t)
  <2>1. FirstBucket(slice.begin)' = f /\ LastBucket(slice.end)' = e
    BY <1>1, <1>5 DEF FirstBucket, LastBucket, Floor, Least
  <2>2. \A m : Bucket(m)' = Bucket(m)  BY <1>1 DEF Bucket, Least
  <2>3. \A m, l : Buckets(m, l)' = Buckets(m, l)  BY <1>1 DEF Buckets, Bucket, Least
  <2>4. \A t : InSlice(t)' = InSlice(t) /\ BucketOf(t)' = BucketOf(t)  BY <1>1 DEF InSlice, BucketOf
  <2> QED  BY <2>1, <2>2, <2>3, <2>4
<1>31. ASSUME NEW s \in Shards, NEW c, HandedUpTo(s, c), s # current PROVE HandedUpTo(s, c)'
  <2>1. ASSUME NEW t \in 0 .. Horizon, InSlice(t), f <= BucketOf(t), BucketOf(t) < c PROVE HasRow(s, t)'
    <3>1. HasRow(s, t)  BY <1>5, <1>31, <2>1 DEF HandedUpTo
    <3> QED  BY <1>24, <3>1
  <2>2. ASSUME NEW i \in DOMAIN result', result'[i].window = w, result'[i].begin = slice.begin, result'[i].shard = s
        PROVE  BucketOf(result'[i].t) < c
    <3>1. i \in 1 .. z  BY <1>15, <1>16, <1>31, <2>2
    <3>2. result'[i] = result[i] /\ i \in DOMAIN result  BY <1>12, <1>14, <3>1
    <3> QED  BY <1>5, <1>31, <2>2, <3>2 DEF HandedUpTo
  <2> QED  BY <1>1, <1>5, <1>30, <2>1, <2>2 DEF HandedUpTo
<1>32. HandedUpTo(current, k)'
  <2>1. ASSUME NEW t \in 0 .. Horizon, InSlice(t), f <= BucketOf(t), BucketOf(t) < k PROVE HasRow(current, t)'
    <3>1. CASE BucketOf(t) < k - 1
      <4>1. HasRow(current, t)  BY <1>4, <1>5, <2>1, <3>1 DEF HandedUpTo
      <4>2. PICK i \in 1 .. z : result[i].shard = current /\ result[i].t = t  BY <1>12, <4>1 DEF HasRow
      <4>3. i \in DOMAIN result' /\ result'[i].shard = current /\ result'[i].t = t  BY <1>14, <4>2
      <4> QED  BY <1>1, <4>3 DEF HasRow
    <3>2. CASE ~(BucketOf(t) < k - 1)
      <4>1. BucketOf(t) = k - 1  BY <1>6, <1>7, <2>1, <3>2
      <4>2. PICK j \in 1 .. n : p[j] = t  BY <1>8, <1>9, <4>1 DEF Holds
      <4>3. PICK i \in DOMAIN result' : result'[i] = Row(t)  BY <1>13, <2>1, <4>2 DEF Adds
      <4>4. result'[i].shard = current /\ result'[i].t = t  BY <4>3 DEF Row
      <4>5. \E m \in DOMAIN result' : result'[m].shard = current /\ result'[m].t = t  BY <4>3, <4>4
      <4> QED  BY <1>1, <4>5 DEF HasRow
    <3> QED  BY <3>1, <3>2
  <2>2. ASSUME NEW i \in DOMAIN result', result'[i].window = w, result'[i].begin = slice.begin,
               result'[i].shard = current
        PROVE  BucketOf(result'[i].t) < k
    <3>1. CASE i \in 1 .. z
      <4>1. result'[i] = result[i] /\ i \in DOMAIN result  BY <1>12, <1>14, <3>1
      <4>2. BucketOf(result'[i].t) < k - 1  BY <1>4, <1>5, <2>2, <4>1 DEF HandedUpTo
      <4>3. BucketOf(result'[i].t) \in Nat  BY <1>6, <1>18, <3>1, <4>1
      <4> QED  BY <4>2, <4>3
    <3>2. CASE i > z
      <4>1. BucketOf(result'[i].t) = k - 1  BY <1>16, <3>2
      <4> QED  BY <4>1
    <3> QED  BY <1>15, <3>1, <3>2
  <2> QED  BY <1>1, <1>5, <1>30, <2>1, <2>2 DEF HandedUpTo
<1>33. ASSUME NEW s \in Shards, s >= current, groups'[s].at \in ReadingPoints PROVE ReadsOn(s)'
  <2>1. CASE s = current
    <3>1. groups'[s].at = "held" /\ groups'[s].left = Buckets(k, e)  BY <1>6, <1>29, <2>1
    <3>2. f <= k  BY <1>6
    <3>3. Reads(s, k)'  BY <1>30, <3>1, <3>2 DEF Reads
    <3>4. HandedUpTo(s, k)'  BY <1>1, <1>32, <2>1
    <3> QED  BY <3>1, <3>3, <3>4 DEF ReadsOn
  <2>2. CASE s # current
    <3>1. groups'[s] = groups[s]  BY <1>28, <2>2
    <3>2. ReadsOn(s)  BY <1>0, <1>33, <3>1 DEF ReadInv
    <3>3. PICK m \in Nat : Reads(s, m) /\ HandedUpTo(s, IF groups[s].at = "ready" THEN m - 1 ELSE m)
      BY <3>2 DEF ReadsOn
    <3>4. Reads(s, m)'  BY <1>5, <1>30, <3>1, <3>3 DEF Reads
    <3>5. PICK c : c = IF groups[s].at = "ready" THEN m - 1 ELSE m  OBVIOUS
    <3>6. HandedUpTo(s, c)'  BY <1>31, <2>2, <3>3, <3>5
    <3>7. HandedUpTo(s, IF groups[s].at = "ready" THEN m - 1 ELSE m)'
      BY <3>1, <3>5, <3>6
    <3> QED  BY <3>4, <3>7 DEF ReadsOn
  <2> QED  BY <2>1, <2>2
<1>34. ReadInv'  BY <1>1, <1>2, <1>33 DEF ReadInv
<1> QED  BY <1>22, <1>23, <1>25, <1>26, <1>27, <1>34 DEF ExactInv, PlaceInv
\* The slice after this one: in its window, or at the begin of the next.
LEMMA NextSlice ==
  ASSUME ScanShape, SliceInv, scan.kind # "series", HasSlice(slice.window, nextBegin),
         scan' = scan, slice' = FollowingSlice(slice.window, nextBegin), nextBegin' = AfterSlice(slice')
  PROVE  /\ SliceInv'
         /\ \/ /\ slice'.window = slice.window /\ slice'.begin = nextBegin
               /\ nextBegin <= scan.windows[slice.window][2]
            \/ /\ slice'.window = slice.window + 1
               /\ slice'.begin = scan.windows[slice.window + 1][1]
               /\ nextBegin > scan.windows[slice.window][2]
<1>1. PICK w, a, b, d, c :
        /\ w = slice.window /\ a = scan.windows[w][1] /\ b = scan.windows[w][2] /\ d = scan.slice
        /\ c = nextBegin
  OBVIOUS
<1>2. /\ w \in DOMAIN scan.windows /\ DOMAIN scan.windows = 1 .. Len(scan.windows)
      /\ Len(scan.windows) \in Nat \ {0} /\ Sliced(a, b) /\ d \in Nat \ {0}
  BY <1>1, WindowFacts, SliceFacts DEF SliceInv, ScanShape
<1>3. c \in Nat /\ b \in Nat /\ a \in Nat /\ slice.begin \in Nat
  BY <1>1, <1>2 DEF Sliced, SliceInv
<1>4. ScanShape'  BY <1>1 DEF ScanShape, Normal
<1>5. ASSUME NEW v, NEW x, slice' = SliceAt(v, x)
      PROVE  slice'.window = v /\ slice'.begin = x /\ slice' = SliceAt(slice'.window, slice'.begin)
  <2>1. PICK e : e = IF scan.windows[v][2] - x < scan.slice THEN scan.windows[v][2] ELSE x + scan.slice
    OBVIOUS
  <2>2. slice' = [window |-> v, begin |-> x, end |-> e, final |-> e = scan.windows[v][2]]
    BY <1>5, <2>1 DEF SliceAt
  <2>3. slice'.window = v /\ slice'.begin = x  BY <2>2
  <2> QED  BY <1>5, <2>3
<1>6. CASE c <= b
  <2>1. slice' = SliceAt(w, c)  BY <1>1, <1>6 DEF FollowingSlice
  <2>2. slice'.window = w /\ slice'.begin = c /\ slice' = SliceAt(slice'.window, slice'.begin)
    BY <1>5, <2>1
  <2>3. ~slice.final  BY <1>1, <1>2, <1>3, <1>6 DEF Sliced
  <2>4. c = slice.begin + d  BY <1>1, <1>2, <2>3 DEF Sliced
  <2>5. \E m \in Nat : c = a + m * d
    <3>1. PICK m \in Nat : slice.begin = a + m * d  BY <1>1 DEF SliceInv
    <3>2. (m + 1) * d = m * d + d /\ m * d \in Nat  BY <1>2
    <3>3. c = a + (m + 1) * d /\ m + 1 \in Nat  BY <1>2, <1>3, <2>4, <3>1, <3>2
    <3> QED  BY <3>3
  <2>6. SliceInv'
    <3>1. nextBegin' = AfterSlice(slice)'  BY <1>1 DEF AfterSlice
    <3>2. slice' = SliceAt(slice.window, slice.begin)'  BY <1>1, <2>2 DEF SliceAt
    <3>3. scan.kind' # "series"  BY <1>1
    <3> QED  BY <1>1, <1>2, <1>3, <1>6, <2>2, <2>5, <3>1, <3>2, <3>3 DEF SliceInv
  <2> QED  BY <1>1, <1>6, <2>2, <2>6
<1>7. CASE ~(c <= b)
  <2>1. slice' = SliceAt(w + 1, scan.windows[w + 1][1])  BY <1>1, <1>7 DEF FollowingSlice
  <2>2. w + 1 \in DOMAIN scan.windows  BY <1>1, <1>2, <1>7 DEF HasSlice
  <2>3. PICK x : x = scan.windows[w + 1][1]  OBVIOUS
  <2>4. slice'.window = w + 1 /\ slice'.begin = x /\ slice' = SliceAt(slice'.window, slice'.begin)
    BY <1>5, <2>1, <2>3
  <2>5. x \in Nat /\ x <= scan.windows[w + 1][2]  BY <2>2, <2>3, WindowFacts
  <2>6. \E m \in Nat : x = x + m * d
    <3>1. x = x + 0 * d  BY <1>2, <2>5
    <3> QED  BY <3>1
  <2>7. SliceInv'
    <3>1. nextBegin' = AfterSlice(slice)'  BY <1>1 DEF AfterSlice
    <3>2. slice' = SliceAt(slice.window, slice.begin)'  BY <1>1, <2>4 DEF SliceAt
    <3>3. scan.kind' # "series"  BY <1>1
    <3> QED  BY <1>1, <2>2, <2>3, <2>4, <2>5, <2>6, <3>1, <3>2, <3>3 DEF SliceInv
  <2> QED  BY <1>1, <1>3, <1>7, <2>3, <2>4, <2>7
<1> QED  BY <1>6, <1>7

\* A shard that is exhausted has handed out its part of the slice.
LEMMA ShardDone ==
  ASSUME ScanShape, SliceInv, NEW s, NEW k \in Nat, k > LastBucket(slice.end), HandedUpTo(s, k),
         NEW t \in 0 .. Horizon, slice.begin <= t, t < nextBegin, t <= scan.windows[slice.window][2]
  PROVE  t \in Unasked \/ HasRow(s, t)
<1>1. PICK a, b : a = scan.windows[slice.window][1] /\ b = scan.windows[slice.window][2]  OBVIOUS
<1>2. Sliced(a, b)  BY <1>1, SliceFacts
<1>3. CASE BucketOf(t) > LastBucket(slice.end)
  BY <1>3, SamplesUnasked
<1>4. CASE ~(BucketOf(t) > LastBucket(slice.end))
  <2>1. BucketOf(t) \in Nat /\ LastBucket(slice.end) \in Nat /\ FirstBucket(slice.begin) <= BucketOf(t)
    BY AskedBuckets
  <2>2. BucketOf(t) < k  BY <1>4, <2>1
  <2>3. InSlice(t)
    <3>1. slice.final => t <= slice.end  BY <1>1, <1>2 DEF Sliced
    <3>2. ~slice.final => t < slice.end  BY <1>2 DEF Sliced
    <3> QED  BY <3>1, <3>2 DEF InSlice
  <2> QED  BY <2>1, <2>2, <2>3 DEF HandedUpTo
<1> QED  BY <1>3, <1>4

\* The same of any slice of a scan, the next one for instance.
AskedFrom == FirstBucket(slice.begin) \in Nat /\ \A t \in 0 .. Horizon : BucketOf(t) \in Nat
LEMMA SlicePlaces ==
  ScanShape /\ SliceInv =>
    /\ Sliced(scan.windows[slice.window][1], scan.windows[slice.window][2])
    /\ AskedFrom
BY SliceFacts, AskedBuckets DEF AskedFrom

\* A shard that has just been opened.
LEMMA OpenedReads ==
  ASSUME ScanShape', SliceInv', scan' = scan, NEW s, groups'[s] = Opening(slice'),
         \A i \in DOMAIN result' : ~(/\ result'[i].window = slice'.window /\ result'[i].begin = slice'.begin
                                     /\ result'[i].shard = s)
  PROVE  ReadsOn(s)'
<1>1. PICK k : k = FirstBucket(slice'.begin)  OBVIOUS
<1>2. k = FirstBucket(slice.begin)'  BY <1>1 DEF FirstBucket, Floor
<1>3. k \in Nat /\ \A t \in 0 .. Horizon : BucketOf(t)' \in Nat
  <2>1. FirstBucket(slice.begin)' \in Nat /\ \A t \in 0 .. Horizon : BucketOf(t)' \in Nat
    <3>1. AskedFrom'  BY SlicePlaces, PTL
    <3> QED  BY <3>1 DEF AskedFrom
  <2> QED  BY <1>2, <2>1
<1>4. groups'[s].at = "opening" /\ groups'[s].left = Buckets(k, LastBucket(slice'.end))
  BY <1>1 DEF Opening, Pages
<1>5. LastBucket(slice'.end) = LastBucket(slice.end)' /\ \A l : Buckets(k, l) = Buckets(k, l)'
  BY DEF LastBucket, Floor, Least, Buckets, Bucket
<1>6. Reads(s, k)'
  BY <1>2, <1>3, <1>4, <1>5 DEF Reads
<1>7. HandedUpTo(s, k)'
  <2>1. \A t \in 0 .. Horizon : ~(k <= BucketOf(t)' /\ BucketOf(t)' < k)  BY <1>3
  <2>2. \A t \in 0 .. Horizon : ~(FirstBucket(slice.begin)' <= BucketOf(t)' /\ BucketOf(t)' < k)
    BY <1>2, <2>1
  <2> QED  BY <2>2 DEF HandedUpTo
<1> QED  BY <1>3, <1>4, <1>6, <1>7 DEF ReadsOn

\* The next slice is prepared.
LEMMA ExactNextSlice ==
  ASSUME ScanInv, ScanBounds, ExactInv, UNCHANGED <<scan, result>>, groups[current].at = "end",
         current = NumShards, scan.kind # "series", HasSlice(slice.window, nextBegin),
         slice' = FollowingSlice(slice.window, nextBegin), nextBegin' = AfterSlice(slice'),
         groups' = Prepared(slice'), current' = 1, caller' = "loop"
  PROVE  ExactInv'
<1>0. /\ ScanTypes /\ PlaceInv /\ EndInv /\ ReadInv /\ ScanShape /\ SliceInv /\ RowsInv
      /\ ApartInv /\ CompleteInv
  BY DEF ScanInv, ExactInv, PlaceInv
<1>1. /\ Shards = 1 .. NumShards /\ NumShards \in Nat \ {0} /\ Shards' = Shards /\ current \in Shards
      /\ Limit \in 1 .. NumShards
  BY <1>0 DEF ScanTypes, Shards, ScanBounds
<1>2. PICK w, a, b : w = slice.window /\ a = scan.windows[w][1] /\ b = scan.windows[w][2]  OBVIOUS
<1>3. Sliced(a, b) /\ w \in Nat /\ w \in DOMAIN scan.windows /\ slice.begin \in Nat
  BY <1>0, <1>2, WindowFacts, SliceFacts DEF SliceInv
<1>4. a \in Nat /\ b \in Nat /\ nextBegin \in Nat /\ slice.begin < nextBegin  BY <1>3 DEF Sliced
<1>5. /\ SliceInv'
      /\ \/ slice'.window = w /\ slice'.begin = nextBegin /\ nextBegin <= b
         \/ /\ slice'.window = w + 1 /\ slice'.begin = scan.windows[w + 1][1]
            /\ nextBegin > b
  BY <1>0, <1>2, NextSlice
<1>6. ScanShape'  BY <1>0 DEF ScanShape, Normal
<1>7. /\ slice'.begin \in Nat /\ slice'.window \in DOMAIN scan.windows
      /\ slice'.begin < nextBegin' /\ nextBegin' \in Nat
  <2>1. Sliced(scan.windows[slice.window][1], scan.windows[slice.window][2])'
    BY <1>5, <1>6, SlicePlaces, PTL
  <2> QED  BY <1>5, <2>1 DEF Sliced, SliceInv
<1>8. ReadsOn(current)
  <2>1. current >= current  BY <1>1
  <2> QED  BY <1>0, <1>1, <2>1 DEF ReadInv, ReadingPoints
<1>9. PICK k \in Nat : Reads(current, k) /\ HandedUpTo(current, k)  BY <1>8 DEF ReadsOn
<1>10. k > LastBucket(slice.end)  BY <1>9 DEF Reads
\* Every row is of an earlier slice now.
<1>11. \A i \in DOMAIN result : /\ RowSound(result[i]) /\ RowPast(result[i])
                                /\ result[i].window \in Nat /\ result[i].begin \in Nat
                                /\ result[i].shard \in Nat
                                /\ result[i].t \in 0 .. Horizon
  <2>1. \A i \in DOMAIN result : RowSound(result[i]) /\ RowPast(result[i]) /\ result[i] \in ScanRows
    BY <1>0 DEF RowsInv
  <2> QED  BY <2>1 DEF ScanRows, RowSound
<1>12. \A i \in DOMAIN result : \/ result[i].window < slice'.window
                                \/ result[i].window = slice'.window /\ result[i].begin < slice'.begin
  <2>1. SUFFICES ASSUME NEW i \in DOMAIN result
                 PROVE  \/ result[i].window < slice'.window
                        \/ result[i].window = slice'.window /\ result[i].begin < slice'.begin
    OBVIOUS
  <2>2. PICK r : r = result[i]  OBVIOUS
  <2>3. r.window \in Nat /\ r.begin \in Nat /\ RowPast(r)  BY <1>11, <2>2
  <2>4. r.window < w \/ (r.window = w /\ r.begin <= slice.begin)
    BY <1>2, <1>3, <2>3 DEF RowPast
  <2> QED  BY <1>3, <1>4, <1>5, <2>2, <2>3, <2>4
<1>13. RowsInv'
  <2>1. \A i \in DOMAIN result : RowSound(result[i])'
    BY <1>0, <1>1 DEF RowsInv, RowSound, BucketOf, Shards
  <2>2. \A i \in DOMAIN result : RowPast(result[i])'
    BY <1>12 DEF RowPast
  <2> QED  BY <1>0, <2>1, <2>2 DEF RowsInv, RowSound, RowPast, BucketOf, Shards, Precedes
<1>14. ApartInv'
  <2>1. SUFFICES ASSUME scan.kind = "window"
                 PROVE  /\ \A i \in DOMAIN result : result[i].window = slice'.window =>
                             result[i].t < IF result[i].begin < slice'.begin THEN slice'.begin ELSE nextBegin'
                        /\ \A i, j \in DOMAIN result :
                             result[i].window = result[j].window /\ result[i].begin < result[j].begin =>
                               result[i].t < result[j].begin
    BY DEF ApartInv
  <2>2. /\ \A i \in DOMAIN result : result[i].window = w =>
             result[i].t < IF result[i].begin < slice.begin THEN slice.begin ELSE nextBegin
        /\ \A i, j \in DOMAIN result :
             result[i].window = result[j].window /\ result[i].begin < result[j].begin =>
               result[i].t < result[j].begin
    BY <1>0, <1>2, <2>1 DEF ApartInv
  <2>3. ASSUME NEW i \in DOMAIN result, result[i].window = slice'.window
        PROVE  result[i].t < IF result[i].begin < slice'.begin THEN slice'.begin ELSE nextBegin'
    <3>1. result[i].begin < slice'.begin /\ result[i].window \in Nat /\ RowPast(result[i])
      BY <1>7, <1>11, <1>12, <2>3
    <3>2. result[i].window <= w  BY <1>2, <1>3, <3>1 DEF RowPast
    <3>3. slice'.window = w /\ slice'.begin = nextBegin  BY <1>3, <1>5, <2>3, <3>1, <3>2
    <3>4. result[i].t < nextBegin
      <4>1. result[i].t < IF result[i].begin < slice.begin THEN slice.begin ELSE nextBegin
        BY <2>2, <2>3, <3>3
      <4>2. result[i].t \in Nat  BY <1>11, ScanAssumption
      <4> QED  BY <1>3, <1>4, <4>1, <4>2
    <3> QED  BY <3>1, <3>3, <3>4
  <2> QED  BY <2>2, <2>3
\* What lies before the next slice is passed.
<1>15. CompleteInv'
  <2>1. Unasked' = Unasked  BY DEF Unasked, Least, Floor
  <2>2. \A s, t : HasRow(s, t)' = HasRow(s, t)  BY DEF HasRow
  <2>3. ASSUME NEW s \in Shards, NEW t \in 0 .. Horizon, Passed(s, t)' PROVE t \in Unasked \/ HasRow(s, t)
    <3>0. t \in Nat  BY ScanAssumption
    <3>1. PICK i \in DOMAIN scan.windows :
            /\ scan.windows[i][1] <= t /\ t <= scan.windows[i][2]
            /\ \/ i < slice'.window
               \/ i = slice'.window /\ t < slice'.begin
               \/ i = slice'.window /\ s < 1 /\ t < nextBegin'
      BY <2>3 DEF Passed
    <3>2. i \in Nat /\ s \in Nat /\ s >= 1 /\ s <= NumShards  BY <1>0, <1>1, WindowFacts
    <3>3. i < w \/ (i = w /\ t < nextBegin)
      <4>1. CASE slice'.window = w /\ slice'.begin = nextBegin
        BY <1>3, <3>1, <3>2, <4>1
      <4>2. CASE /\ slice'.window = w + 1 /\ slice'.begin = scan.windows[w + 1][1]
                 /\ nextBegin > b
        <5>1. CASE i = w + 1
          <6>1. scan.windows[i][1] \in Nat  BY <1>0, WindowFacts
          <6>2. ~(t < slice'.begin)  BY <3>0, <3>1, <4>2, <5>1, <6>1
          <6> QED  BY <1>3, <3>1, <3>2, <4>2, <5>1, <6>2
        <5>2. CASE i # w + 1
          <6>1. i <= w  BY <1>3, <3>1, <3>2, <4>2, <5>2
          <6>2. i = w => t < nextBegin  BY <1>2, <1>4, <3>0, <3>1, <4>2
          <6> QED  BY <1>3, <3>2, <6>1, <6>2
        <5> QED  BY <5>1, <5>2
      <4> QED  BY <1>5, <4>1, <4>2
    <3>4. CASE i < w \/ t < slice.begin \/ s < current
      <4>1. Passed(s, t)  BY <1>2, <3>1, <3>3, <3>4 DEF Passed
      <4> QED  BY <1>0, <4>1 DEF CompleteInv
    <3>5. CASE ~(i < w \/ t < slice.begin \/ s < current)
      <4>1. s = current  BY <1>1, <3>2, <3>5
      <4>2. slice.begin <= t /\ t < nextBegin /\ t <= scan.windows[slice.window][2]
        BY <1>2, <1>3, <3>0, <3>1, <3>3, <3>5
      <4> QED  BY <1>0, <1>9, <1>10, <4>1, <4>2, ShardDone
    <3> QED  BY <3>4, <3>5
  <2> QED  BY <1>1, <2>1, <2>2, <2>3 DEF CompleteInv
<1>16. EndInv'  BY <1>1 DEF EndInv
<1>17. ReadInv'
  <2>1. ASSUME NEW s \in Shards, groups'[s].at \in ReadingPoints PROVE ReadsOn(s)'
    <3>1. groups'[s] = IF s <= Limit THEN Opening(slice') ELSE Waiting  BY PreparedShards
    <3>2. groups'[s] = Opening(slice')  BY <2>1, <3>1 DEF Waiting, ReadingPoints
    <3>3. \A i \in DOMAIN result' : ~(/\ result'[i].window = slice'.window /\ result'[i].begin = slice'.begin
                                      /\ result'[i].shard = s)
      BY <1>7, <1>11, <1>12
    <3> QED  BY <1>5, <1>6, <3>2, <3>3, OpenedReads
  <2> QED  BY <1>1, <2>1 DEF ReadInv
<1> QED  BY <1>5, <1>6, <1>13, <1>14, <1>15, <1>16, <1>17 DEF ExactInv, PlaceInv
\* The next shard of the slice is read, or there is none.
LEMMA ExactNextShard ==
  ASSUME ScanInv, ScanBounds, ExactInv, UNCHANGED <<scan, slice, nextBegin, result>>,
         current \in Shards, groups[current].at = "end", caller' = "loop", current' = current + 1,
         ~(current = NumShards /\ scan.kind # "series" /\ HasSlice(slice.window, nextBegin)),
         groups' = [i \in Shards |-> IF i = current THEN Gone
                                     ELSE IF i = unstarted THEN Opening(slice) ELSE groups[i]]
  PROVE  ExactInv'
<1>0. /\ ScanTypes /\ PlaceInv /\ EndInv /\ ReadInv /\ ScanShape /\ SliceInv /\ RowsInv
      /\ ApartInv /\ CompleteInv
  BY DEF ScanInv, ExactInv, PlaceInv
<1>1. /\ Shards = 1 .. NumShards /\ NumShards \in Nat \ {0} /\ Shards' = Shards /\ current \in Nat
  BY DEF Shards, ScanBounds
<1>2. PICK w, a, b : w = slice.window /\ a = scan.windows[w][1] /\ b = scan.windows[w][2]  OBVIOUS
<1>3. Sliced(a, b) /\ w \in Nat /\ w \in DOMAIN scan.windows /\ slice.begin \in Nat
      /\ DOMAIN scan.windows = 1 .. Len(scan.windows)
  BY <1>0, <1>2, WindowFacts, SliceFacts DEF SliceInv
<1>4. ScanShape' /\ SliceInv'  BY <1>0 DEF ScanShape, SliceInv, Normal, SliceAt, AfterSlice
<1>5. ReadsOn(current)
  <2>1. current >= current  BY <1>1
  <2> QED  BY <1>0, <2>1 DEF ReadInv, ReadingPoints
<1>6. PICK k \in Nat : Reads(current, k) /\ HandedUpTo(current, k)  BY <1>5 DEF ReadsOn
<1>7. k > LastBucket(slice.end)  BY <1>6 DEF Reads
<1>8. \A i \in DOMAIN result : /\ RowPast(result[i]) /\ result[i].window \in Nat
                               /\ result[i].begin \in Nat /\ result[i].shard \in Nat
  <2>1. \A i \in DOMAIN result : RowPast(result[i]) /\ result[i] \in ScanRows  BY <1>0 DEF RowsInv
  <2> QED  BY <2>1 DEF ScanRows
<1>9. RowsInv'
  <2>1. \A i \in DOMAIN result : RowSound(result[i])'
    BY <1>0, <1>1 DEF RowsInv, RowSound, BucketOf, Shards
  <2>2. \A i \in DOMAIN result : RowPast(result[i])'
    BY <1>1, <1>8 DEF RowPast
  <2> QED  BY <1>0, <2>1, <2>2 DEF RowsInv, RowSound, RowPast, BucketOf, Shards, Precedes
<1>10. ApartInv'  BY <1>0 DEF ApartInv
<1>11. CompleteInv'
  <2>1. Unasked' = Unasked  BY DEF Unasked, Least, Floor
  <2>2. \A s, t : HasRow(s, t)' = HasRow(s, t)  BY DEF HasRow
  <2>3. ASSUME NEW s \in Shards, NEW t \in 0 .. Horizon, Passed(s, t)' PROVE t \in Unasked \/ HasRow(s, t)
    <3>0. t \in Nat  BY ScanAssumption
    <3>1. PICK i \in DOMAIN scan.windows :
            /\ scan.windows[i][1] <= t /\ t <= scan.windows[i][2]
            /\ \/ i < slice.window
               \/ i = slice.window /\ t < slice.begin
               \/ i = slice.window /\ s < current + 1 /\ t < nextBegin
      BY <2>3 DEF Passed
    <3>2. i \in Nat /\ s \in Nat  BY <1>1, <1>3
    <3>3. CASE i < w \/ (i = w /\ t < slice.begin) \/ (i = w /\ s < current /\ t < nextBegin)
      <4>1. Passed(s, t)  BY <1>2, <3>1, <3>3 DEF Passed
      <4> QED  BY <1>0, <4>1 DEF CompleteInv
    <3>4. CASE ~(i < w \/ (i = w /\ t < slice.begin) \/ (i = w /\ s < current /\ t < nextBegin))
      <4>1. i = w /\ t < nextBegin /\ s < current + 1 /\ ~(t < slice.begin) /\ ~(s < current)
        BY <1>2, <3>1, <3>4
      <4>2. s = current  BY <1>1, <3>2, <4>1
      <4>3. slice.begin <= t /\ t < nextBegin /\ t <= scan.windows[slice.window][2]
        BY <1>2, <1>3, <3>0, <3>1, <4>1
      <4> QED  BY <1>0, <1>6, <1>7, <4>2, <4>3, ShardDone
    <3> QED  BY <3>3, <3>4
  <2> QED  BY <1>1, <2>1, <2>2, <2>3 DEF CompleteInv
<1>12. EndInv'
  <2>1. ASSUME current + 1 > NumShards PROVE ~HasSlice(slice.window, nextBegin)
    <3>1. current = NumShards  BY <1>1, <2>1
    <3>2. CASE scan.kind = "series"
      <4>1. nextBegin = b + 1 /\ b \in Nat  BY <1>3, <3>2 DEF Sliced
      <4>2. Len(scan.windows) = 1  BY <1>0, <3>2 DEF ScanShape
      <4> QED  BY <1>2, <1>3, <4>1, <4>2 DEF HasSlice
    <3> QED  BY <3>1, <3>2
  <2>2. ~HasSlice(slice.window, nextBegin) => ~HasSlice(slice.window, nextBegin)'
    BY DEF HasSlice
  <2> QED  BY <2>1, <2>2 DEF EndInv
<1>13. ReadInv'
  <2>1. ASSUME NEW s \in Shards, s >= current + 1, groups'[s].at \in ReadingPoints PROVE ReadsOn(s)'
    <3>1. s # current /\ s \in Nat /\ s > current /\ s >= current  BY <1>1, <2>1
    <3>2. CASE s = unstarted
      <4>1. groups'[s] = Opening(slice')  BY <3>1, <3>2
      <4>2. \A i \in DOMAIN result' : ~(/\ result'[i].window = slice'.window /\ result'[i].begin = slice'.begin
                                        /\ result'[i].shard = s)
        BY <1>1, <1>2, <1>3, <1>8, <3>1 DEF RowPast
      <4> QED  BY <1>4, <4>1, <4>2, OpenedReads
    <3>3. CASE s # unstarted
      <4>1. groups'[s] = groups[s]  BY <3>1, <3>3
      <4>2. ReadsOn(s)  BY <1>0, <2>1, <3>1, <4>1 DEF ReadInv
      <4>3. PICK m \in Nat : Reads(s, m) /\ HandedUpTo(s, IF groups[s].at = "ready" THEN m - 1 ELSE m)
        BY <4>2 DEF ReadsOn
      <4>4. Reads(s, m)'
        BY <4>1, <4>3 DEF Reads, FirstBucket, LastBucket, Floor, Least, Bucket, Buckets
      <4>5. HandedUpTo(s, IF groups[s].at = "ready" THEN m - 1 ELSE m)'
        BY <4>1, <4>3 DEF HandedUpTo, HasRow, InSlice, BucketOf, FirstBucket, Floor
      <4> QED  BY <4>4, <4>5 DEF ReadsOn
    <3> QED  BY <3>2, <3>3
  <2> QED  BY <1>1, <2>1 DEF ReadInv
<1> QED  BY <1>4, <1>9, <1>10, <1>11, <1>12, <1>13 DEF ExactInv, PlaceInv

\* The end of a shard.
LEMMA ExactEnd ==
  ASSUME ScanInv, ScanBounds, ExactInv, GetEnd
  PROVE  ExactInv'
<1>1. CASE current = NumShards /\ scan.kind # "series" /\ HasSlice(slice.window, nextBegin)
  BY <1>1, ExactNextSlice DEF GetEnd
<1>2. CASE ~(current = NumShards /\ scan.kind # "series" /\ HasSlice(slice.window, nextBegin))
  <2>1. current \in Shards  BY DEF GetEnd, ScanInv, CallerInv
  <2> QED  BY <1>2, <2>1, ExactNextShard DEF GetEnd
<1> QED  BY <1>1, <1>2

\* The first slice of the first window.
LEMMA ExactBegins == ASSUME ScanBounds, ScanInit PROVE ExactInv
<1>1. PICK s \in Scans :
        scan = [kind |-> s.kind, raw |-> s.raw, windows |-> NormalizedWindows(s.raw),
                slice |-> s.slice, size |-> s.size, conns |-> s.conns, parallel |-> s.parallel]
  BY DEF ScanInit
<1>2. /\ s.kind \in {"series", "window", "wide"}
      /\ s.raw \in SUBSET (Nat \X Nat) /\ IsFiniteSet(s.raw) /\ s.raw # {}
      /\ \A v \in s.raw : v[1] <= v[2]
      /\ s.kind = "series" => \A v, u \in s.raw : v = u /\ u[2] - u[1] <= s.slice
      /\ s.slice \in Nat \ {0} /\ s.size \in Nat \ {0}
  BY ScanAssumption
<1>3. PICK ws : ws = NormalizedWindows(s.raw)  OBVIOUS
<1>4. Normal(ws, s.raw) /\ \A v : s.raw = {v} => ws = <<v>>  BY <1>2, <1>3, WindowsNormal
<1>5. scan.kind = s.kind /\ scan.raw = s.raw /\ scan.windows = ws /\ scan.slice = s.slice /\ scan.size = s.size
  BY <1>1, <1>3
<1>6. ASSUME s.kind = "series" PROVE Len(ws) = 1 /\ ws[1][2] - ws[1][1] <= s.slice
  <2>1. PICK v \in s.raw : s.raw = {v} /\ v[2] - v[1] <= s.slice
    <3>1. PICK v \in s.raw : TRUE  BY <1>2
    <3>2. \A u \in s.raw : u = v /\ v[2] - v[1] <= s.slice  BY <1>2, <1>6
    <3>3. s.raw = {v}  BY <3>1, <3>2
    <3> QED  BY <3>1, <3>2, <3>3
  <2>2. ws = <<v>>  BY <1>4, <2>1
  <2> QED  BY <2>1, <2>2
<1>7. ScanShape  BY <1>2, <1>4, <1>5, <1>6 DEF ScanShape
<1>8. 1 \in DOMAIN scan.windows
  <2>1. ws \in Seq(Nat \X Nat) /\ ws # <<>>  BY <1>4 DEF Normal
  <2> QED  BY <1>5, <2>1
<1>9. PICK x : x = ws[1][1]  OBVIOUS
<1>10. x \in Nat /\ x <= scan.windows[1][2]  BY <1>5, <1>7, <1>8, <1>9, WindowFacts
<1>11. slice = SliceAt(1, x) /\ nextBegin = AfterSlice(slice) /\ groups = Prepared(slice)
       /\ current = 1 /\ caller = "idle" /\ result = <<>>
  BY <1>5, <1>9 DEF ScanInit
<1>12. slice.window = 1 /\ slice.begin = x
  BY <1>11 DEF SliceAt
<1>13. \E m \in Nat : x = x + m * scan.slice
  <2>1. x = x + 0 * scan.slice  BY <1>2, <1>5, <1>10
  <2> QED  BY <2>1
<1>14. SliceInv  BY <1>5, <1>8, <1>9, <1>10, <1>11, <1>12, <1>13 DEF SliceInv
<1>15. result \in Seq(ScanRows) /\ DOMAIN result = {}  BY <1>11
<1>16. RowsInv /\ ApartInv  BY <1>15 DEF RowsInv, ApartInv
<1>17. NumShards \in Nat \ {0} /\ Shards = 1 .. NumShards /\ Horizon \in Nat  BY ScanAssumption DEF Shards
<1>18. CompleteInv
  <2>1. ASSUME NEW q \in Shards, NEW t \in 0 .. Horizon, Passed(q, t) PROVE FALSE
    <3>1. PICK i \in DOMAIN scan.windows :
            /\ scan.windows[i][1] <= t
            /\ \/ i < 1
               \/ i = 1 /\ t < x
               \/ i = 1 /\ q < 1
      BY <1>11, <1>12, <2>1 DEF Passed
    <3>2. i \in Nat /\ i >= 1 /\ q \in Nat /\ q >= 1 /\ t \in Nat  BY <1>7, <1>17, WindowFacts
    <3>3. i = 1 /\ t < x  BY <3>1, <3>2
    <3> QED  BY <1>5, <1>9, <1>10, <3>1, <3>2, <3>3
  <2> QED  BY <2>1 DEF CompleteInv
<1>19. EndInv  BY <1>11, <1>17 DEF EndInv
<1>20. ReadInv
  <2>1. ASSUME NEW q \in Shards, groups[q].at \in ReadingPoints PROVE ReadsOn(q)
    <3>1. groups[q] = IF q <= Limit THEN Opening(slice) ELSE Waiting  BY <1>11, PreparedShards
    <3>2. groups[q] = Opening(slice)  BY <2>1, <3>1 DEF Waiting, ReadingPoints
    <3>3. PICK k : k = FirstBucket(slice.begin)  OBVIOUS
    <3>4. k \in Nat /\ \A t \in 0 .. Horizon : BucketOf(t) \in Nat
      BY <1>7, <1>14, <3>3, AskedBuckets
    <3>5. groups[q].at = "opening" /\ groups[q].left = Buckets(k, LastBucket(slice.end))
      BY <3>2, <3>3 DEF Opening, Pages
    <3>6. Reads(q, k)  BY <3>3, <3>4, <3>5 DEF Reads
    <3>7. HandedUpTo(q, k)
      <4>1. \A t \in 0 .. Horizon : ~(k <= BucketOf(t) /\ BucketOf(t) < k)  BY <3>4
      <4> QED  BY <1>15, <3>3, <4>1 DEF HandedUpTo
    <3> QED  BY <3>4, <3>5, <3>6, <3>7 DEF ReadsOn
  <2> QED  BY <2>1 DEF ReadInv
<1> QED  BY <1>7, <1>14, <1>16, <1>18, <1>19, <1>20 DEF ExactInv, PlaceInv

\* The invariant gives the property.
LEMMA ExactInvSuffices == ASSUME ScanBounds, ScanInv, ExactInv PROVE ScanExact
<1>0. /\ ScanTypes /\ EndInv /\ ScanShape /\ SliceInv /\ RowsInv /\ ApartInv /\ CompleteInv
  BY DEF ScanInv, ExactInv, PlaceInv
<1>1. \A i, j \in DOMAIN result : i < j => Precedes(result[i], result[j])
  BY <1>0 DEF RowsInv
<1>2. result \in Seq(ScanRows) /\ DOMAIN result = 1 .. Len(result) /\ Len(result) \in Nat
  BY <1>0 DEF RowsInv
<1>3. \A i \in DOMAIN result : /\ result[i].window \in Nat /\ result[i].begin \in Nat
                               /\ result[i].shard \in Nat /\ result[i].t \in Nat
  <2>1. \A i \in DOMAIN result : result[i] \in ScanRows  BY <1>2
  <2> QED  BY <2>1 DEF ScanRows
<1>4. \A i \in DOMAIN result : RowSound(result[i])  BY <1>0 DEF RowsInv
\* No sample comes twice.
<1>5. ASSUME scan.kind = "window", NEW i \in DOMAIN result, NEW j \in DOMAIN result, i < j,
             result[i].shard = result[j].shard, result[i].t = result[j].t
      PROVE  FALSE
  <2>1. PICK r, s : r = result[i] /\ s = result[j]  OBVIOUS
  <2>2. Precedes(r, s) /\ r.shard = s.shard /\ r.t = s.t  BY <1>1, <1>5, <2>1
  <2>3. r.window \in Nat /\ s.window \in Nat /\ r.begin \in Nat /\ s.begin \in Nat /\ r.shard \in Nat
        /\ r.t \in Nat
    BY <1>3, <2>1
  <2>4. r.window < s.window \/ (r.window = s.window /\ r.begin < s.begin)
    BY <2>2, <2>3 DEF Precedes
  <2>5. /\ r.window \in DOMAIN scan.windows /\ s.window \in DOMAIN scan.windows
        /\ r.t <= scan.windows[r.window][2]
        /\ scan.windows[s.window][1] <= s.begin /\ s.begin <= s.t
    BY <1>4, <1>5, <2>1 DEF RowSound
  <2>6. CASE r.window < s.window
    <3>1. scan.windows[r.window][2] < scan.windows[s.window][1]
      BY <1>0, <2>5, <2>6 DEF ScanShape, Normal
    <3>2. scan.windows[r.window][2] \in Nat /\ scan.windows[s.window][1] \in Nat
      BY <1>0, <2>5, WindowFacts
    <3> QED  BY <2>2, <2>3, <2>5, <3>1, <3>2
  <2>7. CASE r.window = s.window /\ r.begin < s.begin
    <3>1. r.t < s.begin  BY <1>0, <1>5, <2>1, <2>7 DEF ApartInv
    <3> QED  BY <2>2, <2>3, <2>5, <3>1
  <2> QED  BY <2>4, <2>6, <2>7
<1>6. scan.kind = "window" =>
        \A i, j \in DOMAIN result :
          result[i].shard = result[j].shard /\ result[i].t = result[j].t => i = j
  <2>1. SUFFICES ASSUME scan.kind = "window", NEW i \in DOMAIN result, NEW j \in DOMAIN result,
                        result[i].shard = result[j].shard, result[i].t = result[j].t
                 PROVE  i = j
    OBVIOUS
  <2>2. i < j \/ j < i \/ i = j  BY <1>2
  <2> QED  BY <1>5, <2>1, <2>2
\* At the end every sample has been passed.
<1>7. ASSUME caller = "done", NEW s \in Shards, NEW t \in Requested PROVE t \in Unasked \/ t \in Handed(s)
  <2>1. t \in 0 .. Horizon /\ \E u \in scan.raw : u[1] <= t /\ t <= u[2]  BY <1>7 DEF Requested
  <2>2. t \in Nat  BY <2>1, ScanAssumption
  <2>3. PICK i \in DOMAIN scan.windows : scan.windows[i][1] <= t /\ t <= scan.windows[i][2]
    BY <1>0, <2>1, <2>2 DEF ScanShape, Normal
  <2>4. current > NumShards /\ ~HasSlice(slice.window, nextBegin)  BY <1>0, <1>7 DEF EndInv
  <2>5. PICK w, a, b : w = slice.window /\ a = scan.windows[w][1] /\ b = scan.windows[w][2]  OBVIOUS
  <2>6. /\ w \in DOMAIN scan.windows /\ DOMAIN scan.windows = 1 .. Len(scan.windows)
        /\ Len(scan.windows) \in Nat /\ Sliced(a, b)
    BY <1>0, <2>5, WindowFacts, SliceFacts DEF SliceInv
  <2>7. b < nextBegin /\ w = Len(scan.windows)
    <3>1. b \in Nat /\ nextBegin \in Nat  BY <2>6 DEF Sliced
    <3> QED  BY <2>4, <2>5, <2>6, <3>1 DEF HasSlice
  <2>8. i < w \/ (i = w /\ t < nextBegin)
    <3>1. b \in Nat /\ nextBegin \in Nat  BY <2>6 DEF Sliced
    <3>2. i = w => t <= b  BY <2>3, <2>5
    <3> QED  BY <2>2, <2>3, <2>6, <2>7, <3>1, <3>2
  <2>9. s < current  BY <1>0, <2>4 DEF ScanTypes, Shards, ScanBounds
  <2>10. Passed(s, t)  BY <2>3, <2>5, <2>8, <2>9 DEF Passed
  <2>11. t \in Unasked \/ HasRow(s, t)  BY <1>0, <2>1, <2>10 DEF CompleteInv
  <2> QED  BY <2>11 DEF HasRow, Handed
\* Every row is in a window, or in a bucket that reaches beyond it.
<1>8. ASSUME NEW s \in Shards, NEW t \in Handed(s)
      PROVE  /\ scan.kind = "window" => t \in Requested
             /\ scan.kind = "wide" => t \in Requested \cup Overhang
  <2>1. PICK i \in DOMAIN result : t = result[i].t  BY DEF Handed
  <2>2. PICK r : r = result[i]  OBVIOUS
  <2>3. /\ r.window \in DOMAIN scan.windows /\ t \in 0 .. Horizon
        /\ scan.kind # "series" => scan.windows[r.window][1] <= r.begin /\ r.begin <= t
        /\ scan.kind = "window" => t <= scan.windows[r.window][2]
        /\ scan.kind = "wide" => \/ t <= scan.windows[r.window][2]
                                 \/ BucketOf(t) <= BucketOf(scan.windows[r.window][2])
    BY <1>4, <2>1, <2>2 DEF RowSound
  <2>4. PICK a, b : a = scan.windows[r.window][1] /\ b = scan.windows[r.window][2]  OBVIOUS
  <2>5. a \in Nat /\ b \in Nat /\ r.begin \in Nat /\ t \in Nat
    BY <1>0, <1>3, <2>1, <2>2, <2>3, <2>4, WindowFacts
  <2>6. ASSUME scan.kind # "series", t <= b PROVE t \in Requested
    <3>1. a <= t /\ t <= b  BY <2>3, <2>4, <2>5, <2>6
    <3>2. \E u \in scan.raw : u[1] <= t /\ t <= u[2]
      BY <1>0, <2>3, <2>4, <2>5, <3>1 DEF ScanShape, Normal
    <3> QED  BY <2>3, <3>2 DEF Requested
  <2>7. ASSUME ~(t <= b), BucketOf(t) <= BucketOf(b) PROVE t \in Overhang
    <3>1. t > b  BY <2>5, <2>7
    <3> QED  BY <2>3, <2>4, <2>7, <3>1 DEF Overhang, BucketOf
  <2> QED  BY <2>3, <2>4, <2>6, <2>7
<1> QED  BY <1>1, <1>6, <1>7, <1>8 DEF ScanExact

\* The rows of a scan come in the order of windows, slices, shards and time, and
\* a scan that reaches its end has handed out every requested sample, of a window
\* scan each once and no other, for all windows, slices, buckets, shards and
\* pools, whichever task is first and whatever fails or is cancelled.  Missing
\* are only the samples in the buckets after the whole second in which a slice
\* ends.
THEOREM ScansAreExact == ScanSpec => []ScanExact
<1>0. ScanBounds
  BY ScanAssumption DEF ScanBounds
<1>1. ScanInit => ScanInv /\ ExactInv
  BY <1>0, ScanInitHolds, ExactBegins
<1>2. ScanInv /\ ExactInv /\ [ScanNext]_scanVars => (ScanInv /\ ExactInv)'
  <2> SUFFICES ASSUME ScanInv, ExactInv, [ScanNext]_scanVars
               PROVE  ScanInv' /\ ExactInv'
    OBVIOUS
  <2>1. CASE \E s \in Shards : Acquire(s) \/ Pull(s) \/ PullFails(s) \/ Drain(s)
    BY <2>1, TaskStep, ExactTask
  <2>2. CASE ScheduleNext
    BY <1>0, <2>2, PageStep, ExactSchedule
  <2>3. CASE GetBatch
    BY <1>0, <2>3, PageStep, ExactBatch
  <2>4. CASE GetEnd
    BY <1>0, <2>4, EndStep, ExactEnd
  <2>5. CASE \/ Exhausted \/ ThrowIfCancelled \/ GetError \/ Close \/ Drained \/ RequestCancel
             \/ UNCHANGED scanVars
    BY <1>0, <2>5, CallerStep, ExactCaller
  <2> QED
    BY <2>1, <2>2, <2>3, <2>4, <2>5 DEF ScanNext
<1>3. ScanInv /\ ExactInv => ScanExact
  BY <1>0, ExactInvSuffices
<1> QED
  BY <1>1, <1>2, <1>3, PTL DEF ScanSpec

-----------------------------------------------------------------------------
(* Spill files. *)

InUsePoints == {"writing", "finished", "reading"}
Artifacts   == [label : Labels, at : InUsePoints \cup {"gone"}, file : Nat, pos : Nat, total : Nat]
Batches     == Statements \X Nat \X Nat

SpillTypes ==
  /\ body \in Seq(Seq(Batches))
  /\ artifact \in [Statements -> Seq(Artifacts)]
  /\ DOMAIN outstanding = Statements
  /\ spillFaults \in Nat
  /\ \A w \in misread : \E q \in Statements : \E n \in DOMAIN artifact[q] : w = <<q, n>>

\* Every file in the directory is of an artifact with its path, and a manager
\* only knows paths of its own.
PathInv ==
  /\ \A p \in DOMAIN dir : \E q \in Statements : \E n \in DOMAIN artifact[q] :
       p = Path(q, n) /\ dir[p] = artifact[q][n].file
  /\ \A q \in Statements : \A p \in outstanding[q] : \E n \in DOMAIN artifact[q] : p = Path(q, n)

\* A file has one path, for ever.
FileInv ==
  /\ \A q \in Statements : \A n \in DOMAIN artifact[q] : artifact[q][n].file \in DOMAIN body
  /\ \A q, r \in Statements : \A n \in DOMAIN artifact[q], m \in DOMAIN artifact[r] :
       artifact[q][n].file = artifact[r][m].file => Path(q, n) = Path(r, m)

\* An artifact in use has its path, known to its manager, and its batches.
Intact(q, n) ==
  /\ Path(q, n) \in DOMAIN dir /\ dir[Path(q, n)] = artifact[q][n].file
  /\ Path(q, n) \in outstanding[q]
  /\ Len(body[artifact[q][n].file]) = artifact[q][n].total
  /\ \A i \in 1 .. artifact[q][n].total : body[artifact[q][n].file][i] = <<q, n, i>>
  /\ artifact[q][n].at = "writing" => artifact[q][n].pos = 0
  /\ artifact[q][n].at \in {"finished", "reading"} => artifact[q][n].pos < artifact[q][n].total
IntactInv ==
  \A q \in Statements : q \notin ended =>
    \A n \in DOMAIN artifact[q] :
      artifact[q][n].at \in InUsePoints /\ ~Shared(q, n) => Intact(q, n)

\* Nobody removes a path of one statement behind its manager's back.
KnownInv ==
  \A q \in Statements : \A n \in DOMAIN artifact[q] :
    ~Shared(q, n) /\ Path(q, n) \in outstanding[q] => Path(q, n) \in DOMAIN dir

SpillInv ==
  SpillTypes /\ PathInv /\ FileInv /\ IntactInv /\ KnownInv /\ SpillsRemoved /\ SpillsOwned

\* Nothing has been spilled.
LEMMA SpillInitHolds == ASSUME SpillInit PROVE SpillInv
<1>1. /\ DOMAIN dir = {} /\ DOMAIN body = {} /\ body \in Seq(Seq(Batches)) /\ misread = {}
      /\ \A q \in Statements : artifact[q] = <<>> /\ DOMAIN artifact[q] = {} /\ outstanding[q] = {}
  BY DEF SpillInit
<1>2. SpillTypes
  BY <1>1 DEF SpillInit, SpillTypes
<1>3. PathInv /\ FileInv
  BY <1>1 DEF PathInv, FileInv
<1>4. IntactInv /\ KnownInv
  BY <1>1 DEF IntactInv, KnownInv
<1>5. SpillsRemoved /\ SpillsOwned
  BY <1>1 DEF SpillsRemoved, SpillsOwned
<1> QED
  BY <1>2, <1>3, <1>4, <1>5 DEF SpillInv

\* Two artifacts with one path are one, or of two statements that share it.
LEMMA PathsMeet ==
  ASSUME NEW q \in Statements, NEW r \in Statements,
         NEW n \in DOMAIN artifact[q], NEW m \in DOMAIN artifact[r], Path(q, n) = Path(r, m)
  PROVE  n = m /\ (q # r => Shared(q, n) /\ Shared(r, m))
<1>1. n = m
  BY DEF Path
<1>2. ASSUME q # r
      PROVE  Shared(q, n) /\ Shared(r, m)
  <2>1. r \in Statements \ {q} /\ q \in Statements \ {r}
    BY <1>2
  <2>2. n \in DOMAIN artifact[r] /\ Path(r, n) = Path(q, n) /\ m \in DOMAIN artifact[q] /\ Path(q, m) = Path(r, m)
    BY <1>1
  <2> QED
    BY <2>1, <2>2 DEF Shared
<1> QED
  BY <1>1, <1>2

\* The label of an artifact never changes: who shared a path shares it for ever.
Kept ==
  \A q \in Statements : \A n \in DOMAIN artifact[q] :
    /\ n \in DOMAIN artifact'[q]
    /\ artifact'[q][n].label = artifact[q][n].label

LEMMA SharedStays ==
  ASSUME Kept
  PROVE  /\ \A q \in Statements : \A n \in DOMAIN artifact[q] :
              Path(q, n)' = Path(q, n) /\ (Shared(q, n) => Shared(q, n)')
         /\ \A q \in Statements : Alone(q)' => Alone(q)
<1>1. \A q \in Statements : \A n \in DOMAIN artifact[q] : Path(q, n)' = Path(q, n)
  BY DEF Kept, Path
<1>2. ASSUME NEW q \in Statements, NEW n \in DOMAIN artifact[q], Shared(q, n)
      PROVE  Shared(q, n)'
  <2>1. PICK r \in Statements \ {q} : n \in DOMAIN artifact[r] /\ Path(r, n) = Path(q, n)
    BY <1>2 DEF Shared
  <2>2. n \in DOMAIN artifact'[r] /\ Path(r, n)' = Path(q, n)'
    BY <1>1, <2>1 DEF Kept
  <2> QED
    BY <2>2 DEF Shared
<1>3. ASSUME NEW q \in Statements, Alone(q)'
      PROVE  Alone(q)
  <2> SUFFICES ASSUME NEW n \in DOMAIN artifact[q], Shared(q, n)
               PROVE  FALSE
    BY DEF Alone
  <2>1. n \in DOMAIN artifact'[q] /\ Shared(q, n)'
    BY <1>2 DEF Kept
  <2> QED
    BY <1>3, <2>1 DEF Alone
<1> QED
  BY <1>1, <1>2, <1>3

\* A misread artifact stays one whose path is shared.
LEMMA OwnedStep ==
  ASSUME SpillInv, Kept,
         \/ misread' = misread
         \/ \E q \in Statements : \E n \in DOMAIN artifact[q] :
              Shared(q, n) /\ misread' = misread \cup {<<q, n>>}
  PROVE  /\ SpillsOwned'
         /\ \A w \in misread' : \E q \in Statements : \E n \in DOMAIN artifact'[q] : w = <<q, n>>
<1>1. SpillTypes /\ SpillsOwned
  BY DEF SpillInv
<1>2. ASSUME NEW w \in misread'
      PROVE  \E q \in Statements : \E n \in DOMAIN artifact[q] : w = <<q, n>> /\ Shared(q, n)
  <2>1. CASE w \in misread
    <3>1. PICK q \in Statements : \E n \in DOMAIN artifact[q] : w = <<q, n>>
      BY <1>1, <2>1 DEF SpillTypes
    <3>2. PICK n \in DOMAIN artifact[q] : w = <<q, n>>
      BY <3>1
    <3>3. Shared(q, n)
      BY <1>1, <2>1, <3>2 DEF SpillsOwned
    <3> QED
      BY <3>2, <3>3
  <2>2. CASE w \notin misread
    BY <1>2, <2>2
  <2> QED
    BY <2>1, <2>2
<1>3. ASSUME NEW w \in misread'
      PROVE  \E q \in Statements : \E n \in DOMAIN artifact'[q] : w = <<q, n>> /\ Shared(q, n)'
  <2>1. PICK q \in Statements : \E n \in DOMAIN artifact[q] : w = <<q, n>> /\ Shared(q, n)
    BY <1>2, <1>3
  <2>2. PICK n \in DOMAIN artifact[q] : w = <<q, n>> /\ Shared(q, n)
    BY <2>1
  <2>3. n \in DOMAIN artifact'[q] /\ Shared(q, n)'
    BY <2>2, SharedStays DEF Kept
  <2> QED
    BY <2>2, <2>3
<1>4. SpillsOwned'
  <2> SUFFICES ASSUME NEW w \in misread'
               PROVE  Shared(w[1], w[2])'
    BY DEF SpillsOwned
  <2>1. PICK q \in Statements : \E n \in DOMAIN artifact'[q] : w = <<q, n>> /\ Shared(q, n)'
    BY <1>3
  <2>2. PICK n \in DOMAIN artifact'[q] : w = <<q, n>> /\ Shared(q, n)'
    BY <2>1
  <2>3. w[1] = q /\ w[2] = n
    BY <2>2
  <2> QED
    BY <2>2, <2>3
<1> QED
  BY <1>3, <1>4

\* A new artifact has a file of its own, or the file of another statement.
LEMMA OpenStep ==
  ASSUME SpillInv, NEW q \in Statements, NEW l \in Labels, q \notin ended,
         NEW batches \in Seq(Batches), Opened(q, l, batches),
         NEW a \in Artifacts, a.label = l, a.file = NewFile(q, l),
         artifact' = [artifact EXCEPT ![q] = Append(@, a)],
         a.at \in InUsePoints =>
           /\ outstanding' = [outstanding EXCEPT ![q] = @ \cup {NewPath(q, l)}]
           /\ spillFaults' = spillFaults
           /\ a.total = Len(batches) /\ a.pos = 0
           /\ a.at # "writing" => a.at = "finished" /\ a.total > 0
           /\ \A i \in 1 .. Len(batches) : batches[i] = <<q, Len(artifact[q]) + 1, i>>,
         a.at = "gone" => outstanding' = outstanding /\ spillFaults' = spillFaults + 1,
         ended' = ended, misread' = misread
  PROVE  SpillInv'
<1>t. SpillTypes /\ PathInv /\ FileInv /\ IntactInv /\ KnownInv /\ SpillsRemoved /\ SpillsOwned
  BY DEF SpillInv
<1> PICK k : k = Len(artifact[q]) + 1
  OBVIOUS
<1> PICK z : z = Len(body) + 1
  OBVIOUS
<1>p. PICK p : p = <<l, k>>
  OBVIOUS
<1>f. PICK f : f = NewFile(q, l)
  OBVIOUS
<1>1. artifact \in [Statements -> Seq(Artifacts)] /\ artifact[q] \in Seq(Artifacts)
  BY <1>t DEF SpillTypes
<1>2. /\ artifact' \in [Statements -> Seq(Artifacts)]
      /\ artifact'[q] = Append(artifact[q], a)
      /\ \A r \in Statements : r # q => artifact'[r] = artifact[r]
  <2>1. Append(artifact[q], a) \in Seq(Artifacts)
    BY <1>1
  <2> QED
    BY <1>1, <2>1
<1>3. /\ k \in Nat \ {0} /\ k \notin DOMAIN artifact[q]
      /\ DOMAIN artifact'[q] = DOMAIN artifact[q] \cup {k}
      /\ artifact'[q][k] = a
      /\ \A n \in DOMAIN artifact[q] : artifact'[q][n] = artifact[q][n]
  BY <1>1, <1>2
<1>4. /\ \A r \in Statements : \A n \in DOMAIN artifact[r] :
           n \in DOMAIN artifact'[r] /\ artifact'[r][n] = artifact[r][n]
      /\ \A r \in Statements : \A n \in DOMAIN artifact'[r] :
           n \in DOMAIN artifact[r] \/ (r = q /\ n = k)
  BY <1>2, <1>3
<1>s. Kept
  BY <1>4 DEF Kept
<1>5. NewPath(q, l) = p /\ Path(q, k)' = p
  BY <1>3, <1>p DEF NewPath, Path
<1>6. ASSUME NEW r \in Statements, NEW n \in DOMAIN artifact[r], Path(r, n) = p
      PROVE  n = k /\ r # q /\ Shared(r, n)' /\ Shared(q, k)'
  <2>1. n = k
    BY <1>6, <1>p DEF Path
  <2>2. r # q
    BY <1>3, <2>1
  <2>3. k \in DOMAIN artifact'[q] /\ k \in DOMAIN artifact'[r] /\ Path(r, k)' = Path(q, k)'
    BY <1>3, <1>4, <1>5, <1>6, <1>s, <2>1, SharedStays
  <2>4. Shared(r, k)'
    BY <2>2, <2>3 DEF Shared
  <2>5. Shared(q, k)'
    BY <2>2, <2>3 DEF Shared
  <2> QED
    BY <2>1, <2>2, <2>4, <2>5
<1>8. /\ body \in Seq(Seq(Batches)) /\ z \in Nat \ {0} /\ z \notin DOMAIN body
      /\ \A n \in DOMAIN body : n < z
  BY <1>t DEF SpillTypes
<1>9. /\ \/ p \notin DOMAIN dir /\ f = z
         \/ p \in DOMAIN dir /\ f \in DOMAIN body /\ Shared(q, k)'
      /\ \A r \in Statements : \A n \in DOMAIN artifact[r] :
           artifact[r][n].file = f => Path(r, n) = p
  <2>1. CASE p \notin DOMAIN dir
    <3>1. f = z
      BY <1>5, <1>f, <2>1 DEF NewFile
    <3>2. \A r \in Statements : \A n \in DOMAIN artifact[r] : artifact[r][n].file # f
      BY <1>t, <1>8, <3>1 DEF FileInv
    <3> QED
      BY <2>1, <3>1, <3>2
  <2>2. CASE p \in DOMAIN dir
    <3>1. f = dir[p]
      BY <1>5, <1>f, <2>2 DEF NewFile
    <3>2. PICK r \in Statements : \E n \in DOMAIN artifact[r] :
                                    p = Path(r, n) /\ dir[p] = artifact[r][n].file
      BY <1>t, <2>2 DEF PathInv
    <3>3. PICK n \in DOMAIN artifact[r] : p = Path(r, n) /\ dir[p] = artifact[r][n].file
      BY <3>2
    <3>4. Shared(q, k)' /\ f \in DOMAIN body
      BY <1>t, <1>6, <3>1, <3>3 DEF FileInv
    <3>5. \A s \in Statements : \A m \in DOMAIN artifact[s] :
            artifact[s][m].file = f => Path(s, m) = p
      BY <1>t, <3>1, <3>3 DEF FileInv
    <3> QED
      BY <2>2, <3>4, <3>5
  <2> QED
    BY <2>1, <2>2
<1>10. /\ body' \in Seq(Seq(Batches)) /\ f \in DOMAIN body' /\ body'[f] = batches
       /\ \A i \in DOMAIN body : i \in DOMAIN body' /\ (i # f => body'[i] = body[i])
  <2>1. CASE f \in DOMAIN body
    <3>1. body' = [body EXCEPT ![f] = batches]
      BY <1>f, <2>1 DEF Opened
    <3> QED
      BY <1>8, <2>1, <3>1
  <2>2. CASE f \notin DOMAIN body
    <3>1. body' = Append(body, batches)
      BY <1>f, <2>2 DEF Opened
    <3>2. f = z
      BY <1>9, <2>2
    <3> QED
      BY <1>8, <3>1, <3>2
  <2> QED
    BY <2>1, <2>2
<1>11. /\ DOMAIN dir' = DOMAIN dir \cup {p} /\ dir'[p] = f
       /\ \A x \in DOMAIN dir : x # p => dir'[x] = dir[x]
  <2>1. dir' = [x \in DOMAIN dir \cup {p} |-> IF x = p THEN f ELSE dir[x]]
    BY <1>5, <1>f DEF Opened
  <2> QED
    BY <2>1
<1>12. a.at \in InUsePoints \/ a.at = "gone"
  BY DEF Artifacts
<1>13. /\ DOMAIN outstanding' = Statements
       /\ \A r \in Statements : r # q => outstanding'[r] = outstanding[r]
       /\ a.at \in InUsePoints => outstanding'[q] = outstanding[q] \cup {p}
       /\ a.at = "gone" => outstanding'[q] = outstanding[q]
  BY <1>t, <1>5, <1>12 DEF SpillTypes
<1>14. spillFaults' \in Nat /\ spillFaults \in Nat /\ (a.at = "gone" => spillFaults' # 0)
       /\ (spillFaults' = 0 => spillFaults = 0)
  BY <1>t, <1>12 DEF SpillTypes
<1>15. \A r \in Statements : \A n \in DOMAIN artifact[r] : Path(r, n)' = Path(r, n)
  BY <1>s, SharedStays
<1>16. SpillsOwned' /\ \A w \in misread' : \E r \in Statements : \E n \in DOMAIN artifact'[r] : w = <<r, n>>
  BY <1>s, OwnedStep
<1>17. ASSUME NEW r \in Statements, NEW n \in DOMAIN artifact[r], ~Shared(r, n)'
       PROVE  ~Shared(r, n) /\ Path(r, n) # p /\ artifact[r][n].file # f
  <2>1. ~Shared(r, n) /\ Path(r, n) # p
    BY <1>6, <1>17, <1>s, SharedStays
  <2> QED
    BY <1>9, <2>1
<1>20. SpillTypes'
  BY <1>2, <1>10, <1>13, <1>14, <1>16 DEF SpillTypes
<1>21. PathInv'
  <2>1. ASSUME NEW x \in DOMAIN dir'
        PROVE  \E r \in Statements : \E n \in DOMAIN artifact'[r] :
                 x = Path(r, n)' /\ dir'[x] = artifact'[r][n].file
    <3>1. CASE x = p
      BY <1>3, <1>5, <1>f, <1>11, <3>1
    <3>2. CASE x # p
      <4>1. x \in DOMAIN dir /\ dir'[x] = dir[x]
        BY <1>11, <2>1, <3>2
      <4>2. PICK r \in Statements : \E n \in DOMAIN artifact[r] :
                                      x = Path(r, n) /\ dir[x] = artifact[r][n].file
        BY <1>t, <4>1 DEF PathInv
      <4>3. PICK n \in DOMAIN artifact[r] : x = Path(r, n) /\ dir[x] = artifact[r][n].file
        BY <4>2
      <4>4. n \in DOMAIN artifact'[r] /\ x = Path(r, n)' /\ dir'[x] = artifact'[r][n].file
        BY <1>4, <1>15, <4>1, <4>3
      <4> QED
        BY <4>4
    <3> QED
      BY <3>1, <3>2
  <2>2. ASSUME NEW r \in Statements, NEW x \in outstanding'[r]
        PROVE  \E n \in DOMAIN artifact'[r] : x = Path(r, n)'
    <3>1. CASE x \in outstanding[r]
      BY <1>t, <1>4, <1>15, <3>1 DEF PathInv
    <3>2. CASE r = q /\ x = p
      BY <1>3, <1>5, <3>2
    <3> QED
      BY <1>12, <1>13, <2>2, <3>1, <3>2
  <2> QED
    BY <2>1, <2>2 DEF PathInv
<1>22. FileInv'
  <2>1. \A r \in Statements : \A n \in DOMAIN artifact'[r] : artifact'[r][n].file \in DOMAIN body'
    BY <1>t, <1>3, <1>4, <1>f, <1>10 DEF FileInv
  <2>2. ASSUME NEW r \in Statements, NEW s \in Statements, NEW n \in DOMAIN artifact'[r],
               NEW m \in DOMAIN artifact'[s], artifact'[r][n].file = artifact'[s][m].file
        PROVE  Path(r, n)' = Path(s, m)'
    <3>1. \A u \in Statements : \A i \in DOMAIN artifact'[u] :
            \/ i \in DOMAIN artifact[u] /\ Path(u, i)' = Path(u, i) /\ artifact'[u][i] = artifact[u][i]
            \/ Path(u, i)' = p /\ artifact'[u][i].file = f
      BY <1>3, <1>4, <1>5, <1>15, <1>f
    <3>2. CASE n \in DOMAIN artifact[r] /\ Path(r, n)' = Path(r, n) /\ artifact'[r][n] = artifact[r][n]
      <4>1. CASE m \in DOMAIN artifact[s] /\ Path(s, m)' = Path(s, m) /\ artifact'[s][m] = artifact[s][m]
        BY <1>t, <2>2, <3>2, <4>1 DEF FileInv
      <4>2. CASE Path(s, m)' = p /\ artifact'[s][m].file = f
        BY <1>9, <2>2, <3>2, <4>2
      <4> QED
        BY <3>1, <4>1, <4>2
    <3>3. CASE Path(r, n)' = p /\ artifact'[r][n].file = f
      <4>1. CASE m \in DOMAIN artifact[s] /\ Path(s, m)' = Path(s, m) /\ artifact'[s][m] = artifact[s][m]
        BY <1>9, <2>2, <3>3, <4>1
      <4>2. CASE Path(s, m)' = p /\ artifact'[s][m].file = f
        BY <3>3, <4>2
      <4> QED
        BY <3>1, <4>1, <4>2
    <3> QED
      BY <3>1, <3>2, <3>3
  <2> QED
    BY <2>1, <2>2 DEF FileInv
<1>23. IntactInv'
  <2> SUFFICES ASSUME NEW r \in Statements, r \notin ended, NEW n \in DOMAIN artifact'[r],
                      artifact'[r][n].at \in InUsePoints, ~Shared(r, n)'
               PROVE  Intact(r, n)'
    BY DEF IntactInv
  <2>1. CASE r = q /\ n = k
    <3>1. /\ p \in DOMAIN dir' /\ dir'[p] = artifact'[q][k].file
          /\ p \in outstanding'[q]
      BY <1>3, <1>f, <1>11, <1>13, <2>1
    <3>2. artifact'[q][k] = a /\ a.file = f /\ a.at \in InUsePoints /\ body'[f] = batches
      BY <1>3, <1>f, <1>10, <2>1
    <3>3. /\ Len(body'[a.file]) = a.total
          /\ \A i \in 1 .. a.total : body'[a.file][i] = <<q, k, i>>
          /\ a.at = "writing" => a.pos = 0
          /\ a.at \in {"finished", "reading"} => a.pos < a.total
      BY <3>2
    <3>4. dir'[p] = a.file
      BY <3>1, <3>2
    <3>5. Intact(q, k)'
      BY ONLY <1>5, <3>1, <3>2, <3>3, <3>4 DEF Intact
    <3> QED
      BY <2>1, <3>5
  <2>2. CASE n \in DOMAIN artifact[r] /\ ~(r = q /\ n = k)
    <3>1. ~Shared(r, n) /\ Path(r, n) # p /\ artifact[r][n].file # f
      BY <1>17, <2>2
    <3>2. artifact'[r][n] = artifact[r][n] /\ artifact[r][n].file \in DOMAIN body /\ Intact(r, n)
      BY <1>t, <1>4, <2>2, <3>1 DEF FileInv, IntactInv
    <3>3. outstanding[r] \subseteq outstanding'[r]
      BY <1>12, <1>13
    <3>4. /\ Path(r, n) \in DOMAIN dir' /\ dir'[Path(r, n)] = artifact[r][n].file
          /\ Path(r, n) \in outstanding'[r]
      BY <1>11, <3>1, <3>2, <3>3 DEF Intact
    <3>5. body'[artifact[r][n].file] = body[artifact[r][n].file]
      BY <1>10, <3>1, <3>2
    <3>6. Path(r, n)' = Path(r, n)
      BY <1>15, <2>2
    <3>c. PICK c : c = artifact[r][n]
      OBVIOUS
    <3>7. /\ artifact'[r][n] = c /\ dir'[Path(r, n)] = c.file
          /\ Len(body'[c.file]) = c.total /\ \A i \in 1 .. c.total : body'[c.file][i] = <<r, n, i>>
          /\ c.at = "writing" => c.pos = 0
          /\ c.at \in {"finished", "reading"} => c.pos < c.total
      BY <3>2, <3>4, <3>5, <3>c DEF Intact
    <3> QED
      BY ONLY <3>4, <3>6, <3>7 DEF Intact
  <2> QED
    BY <1>4, <2>1, <2>2
<1>24. KnownInv'
  <2> SUFFICES ASSUME NEW r \in Statements, NEW n \in DOMAIN artifact'[r], ~Shared(r, n)',
                      Path(r, n)' \in outstanding'[r]
               PROVE  Path(r, n)' \in DOMAIN dir'
    BY DEF KnownInv
  <2>1. CASE r = q /\ n = k
    BY <1>5, <1>11, <2>1
  <2>2. CASE n \in DOMAIN artifact[r]
    <3>1. ~Shared(r, n) /\ Path(r, n) # p /\ Path(r, n)' = Path(r, n)
      BY <1>15, <1>17, <2>2
    <3>2. Path(r, n) \in outstanding[r]
      BY <1>12, <1>13, <3>1
    <3> QED
      BY <1>t, <1>11, <2>2, <3>1, <3>2 DEF KnownInv
  <2> QED
    BY <1>4, <2>1, <2>2
<1>25. SpillsRemoved'
  <2> SUFFICES ASSUME spillFaults' = 0, NEW r \in Statements, Alone(r)', NEW n \in DOMAIN artifact'[r],
                      Path(r, n)' \in DOMAIN dir'
               PROVE  r \notin ended /\ Path(r, n)' \in outstanding'[r]
    BY DEF SpillsRemoved
  <2>1. CASE r = q /\ n = k
    BY <1>5, <1>12, <1>13, <1>14, <2>1
  <2>2. CASE n \in DOMAIN artifact[r]
    <3>1. ~Shared(r, n)' /\ Alone(r)
      BY <1>s, SharedStays DEF Alone
    <3>2. Path(r, n) # p /\ Path(r, n)' = Path(r, n)
      BY <1>15, <1>17, <2>2, <3>1
    <3>3. r \notin ended /\ Path(r, n) \in outstanding[r]
      BY <1>t, <1>11, <1>14, <2>2, <3>1, <3>2 DEF SpillsRemoved
    <3> QED
      BY <1>12, <1>13, <3>2, <3>3
  <2> QED
    BY <1>4, <2>1, <2>2
<1> QED
  BY <1>16, <1>20, <1>21, <1>22, <1>23, <1>24, <1>25 DEF SpillInv

\* A sequence with an element more.
LEMMA Appended ==
  ASSUME NEW S, NEW s \in Seq(S), NEW x \in S
  PROVE  /\ Append(s, x) \in Seq(S) /\ Len(Append(s, x)) = Len(s) + 1
         /\ Append(s, x)[Len(s) + 1] = x /\ Len(s) \in Nat
         /\ \A i \in 1 .. Len(s) : Append(s, x)[i] = s[i]
OBVIOUS

\* A sequence with an element replaced.
LEMMA Replaced ==
  ASSUME NEW S, NEW s \in Seq(S), NEW i \in DOMAIN s, NEW x \in S
  PROVE  /\ [s EXCEPT ![i] = x] \in Seq(S) /\ DOMAIN [s EXCEPT ![i] = x] = DOMAIN s
         /\ [s EXCEPT ![i] = x][i] = x
         /\ \A j \in DOMAIN s : j # i => [s EXCEPT ![i] = x][j] = s[j]
OBVIOUS

\* One artifact is replaced by another state of itself.
LEMMA ArtifactChanged ==
  ASSUME SpillTypes, NEW q \in Statements, NEW n \in DOMAIN artifact[q], NEW b \in Artifacts,
         b.label = artifact[q][n].label,
         artifact' = [artifact EXCEPT ![q] = [artifact[q] EXCEPT ![n] = b]]
  PROVE  /\ artifact' \in [Statements -> Seq(Artifacts)]
         /\ \A r \in Statements : DOMAIN artifact'[r] = DOMAIN artifact[r]
         /\ artifact'[q][n] = b
         /\ \A r \in Statements : \A m \in DOMAIN artifact[r] :
              ~(r = q /\ m = n) => artifact'[r][m] = artifact[r][m]
         /\ Kept
<1>1. artifact \in [Statements -> Seq(Artifacts)] /\ artifact[q] \in Seq(Artifacts)
  BY DEF SpillTypes
<1> PICK s : s = [artifact[q] EXCEPT ![n] = b]
  OBVIOUS
<1>2. /\ s \in Seq(Artifacts) /\ DOMAIN s = DOMAIN artifact[q] /\ s[n] = b
      /\ \A m \in DOMAIN artifact[q] : m # n => s[m] = artifact[q][m]
  BY <1>1
<1>3. /\ artifact' \in [Statements -> Seq(Artifacts)] /\ artifact'[q] = s
      /\ \A r \in Statements : r # q => artifact'[r] = artifact[r]
  BY <1>1, <1>2
<1>4. \A r \in Statements : \A m \in DOMAIN artifact[r] :
        artifact'[r][m].label = artifact[r][m].label
  BY <1>2, <1>3
<1> QED
  BY <1>2, <1>3, <1>4 DEF Kept

\* An artifact moves on, or ends with its path removed or left behind.
LEMMA ChangeStep ==
  ASSUME SpillInv, NEW q \in Statements, q \notin ended, NEW n \in DOMAIN artifact[q],
         artifact[q][n].at \in InUsePoints,
         NEW b \in Artifacts, b.label = artifact[q][n].label,
         \/ b.file = artifact[q][n].file
         \/ Path(q, n) \in DOMAIN dir /\ b.file = dir[Path(q, n)],
         artifact' = [artifact EXCEPT ![q] = [artifact[q] EXCEPT ![n] = b]],
         \/ UNCHANGED <<dir, outstanding>>
         \/ b.at = "gone" /\ RemovePath(q, Path(q, n)),
         b.at \in InUsePoints /\ ~Shared(q, n) =>
           b.total = artifact[q][n].total /\ b.at # "writing" /\ b.pos < b.total,
         spillFaults' = spillFaults \/ spillFaults' = spillFaults + 1,
         \/ misread' = misread
         \/ Shared(q, n) /\ misread' = misread \cup {<<q, n>>},
         body' = body, ended' = ended
  PROVE  SpillInv'
<1>t. SpillTypes /\ PathInv /\ FileInv /\ IntactInv /\ KnownInv /\ SpillsRemoved /\ SpillsOwned
  BY DEF SpillInv
<1>1. /\ artifact' \in [Statements -> Seq(Artifacts)]
      /\ \A r \in Statements : DOMAIN artifact'[r] = DOMAIN artifact[r]
      /\ artifact'[q][n] = b
      /\ \A r \in Statements : \A m \in DOMAIN artifact[r] :
           ~(r = q /\ m = n) => artifact'[r][m] = artifact[r][m]
      /\ Kept
  BY <1>t, ArtifactChanged
<1>2. /\ DOMAIN outstanding' = Statements
      /\ \A r \in Statements : \A p \in outstanding'[r] : p \in outstanding[r]
      /\ \A r \in Statements : \A p \in outstanding[r] : p # Path(q, n) => p \in outstanding'[r]
  BY <1>t DEF SpillTypes, RemovePath
<1>3. /\ \A p \in DOMAIN dir' : p \in DOMAIN dir /\ dir'[p] = dir[p]
      /\ \A p \in DOMAIN dir : p # Path(q, n) => p \in DOMAIN dir'
      /\ \/ dir' = dir /\ outstanding' = outstanding
         \/ b.at = "gone" /\ Path(q, n) \notin DOMAIN dir' /\ Path(q, n) \notin outstanding'[q]
  <2>1. CASE UNCHANGED <<dir, outstanding>>
    BY <2>1
  <2>2. CASE b.at = "gone" /\ Path(q, n) \in DOMAIN dir /\ dir' = Removed(dir, {Path(q, n)})
             /\ outstanding' = [outstanding EXCEPT ![q] = @ \ {Path(q, n)}]
    BY <1>t, <2>2 DEF Removed, SpillTypes
  <2> QED
    BY <2>1, <2>2 DEF RemovePath
<1>4. spillFaults \in Nat /\ spillFaults' \in Nat /\ (spillFaults' = 0 => spillFaults = 0)
  BY <1>t DEF SpillTypes
<1>5. /\ \A r \in Statements : \A m \in DOMAIN artifact[r] :
           Path(r, m)' = Path(r, m) /\ (Shared(r, m) => Shared(r, m)')
      /\ \A r \in Statements : Alone(r)' => Alone(r)
  BY <1>1, SharedStays
<1>6. SpillsOwned' /\ \A w \in misread' : \E r \in Statements : \E m \in DOMAIN artifact'[r] : w = <<r, m>>
  BY <1>1, OwnedStep
<1>7. /\ b.file \in DOMAIN body
      /\ \A r \in Statements : \A m \in DOMAIN artifact[r] :
           artifact[r][m].file = b.file => Path(r, m) = Path(q, n)
  <2>1. CASE b.file = artifact[q][n].file
    BY <1>t, <2>1 DEF FileInv
  <2>2. CASE Path(q, n) \in DOMAIN dir /\ b.file = dir[Path(q, n)]
    <3>1. PICK s \in Statements : \E j \in DOMAIN artifact[s] :
                 Path(q, n) = Path(s, j) /\ dir[Path(q, n)] = artifact[s][j].file
      BY <1>t, <2>2 DEF PathInv
    <3>2. PICK j \in DOMAIN artifact[s] :
                 Path(q, n) = Path(s, j) /\ dir[Path(q, n)] = artifact[s][j].file
      BY <3>1
    <3> QED
      BY <1>t, <2>2, <3>2 DEF FileInv
  <2> QED
    BY <2>1, <2>2
<1>8. SpillTypes'
  BY <1>t, <1>1, <1>2, <1>4, <1>6 DEF SpillTypes
<1>9. PathInv'
  <2>1. ASSUME NEW p \in DOMAIN dir'
        PROVE  \E r \in Statements : \E m \in DOMAIN artifact'[r] :
                 p = Path(r, m)' /\ dir'[p] = artifact'[r][m].file
    <3>1. p \in DOMAIN dir /\ dir'[p] = dir[p]
      BY <1>3, <2>1
    <3>2. PICK r \in Statements : \E m \in DOMAIN artifact[r] :
                                    p = Path(r, m) /\ dir[p] = artifact[r][m].file
      BY <1>t, <3>1 DEF PathInv
    <3>3. PICK m \in DOMAIN artifact[r] : p = Path(r, m) /\ dir[p] = artifact[r][m].file
      BY <3>2
    <3>4. artifact'[r][m].file = dir[p]
      <4>1. CASE r = q /\ m = n
        BY <1>1, <3>3, <4>1
      <4>2. CASE ~(r = q /\ m = n)
        BY <1>1, <3>3, <4>2
      <4> QED
        BY <4>1, <4>2
    <3>5. m \in DOMAIN artifact'[r] /\ p = Path(r, m)' /\ dir'[p] = artifact'[r][m].file
      BY <1>1, <1>5, <3>1, <3>3, <3>4
    <3> QED
      BY <3>5
  <2>2. \A r \in Statements : \A p \in outstanding'[r] : \E m \in DOMAIN artifact'[r] : p = Path(r, m)'
    BY <1>t, <1>1, <1>2, <1>5 DEF PathInv
  <2> QED
    BY <2>1, <2>2 DEF PathInv
<1>10. FileInv'
  <2>1. \A r \in Statements : \A m \in DOMAIN artifact'[r] : artifact'[r][m].file \in DOMAIN body'
    BY <1>t, <1>1, <1>7 DEF FileInv
  <2>2. ASSUME NEW r \in Statements, NEW s \in Statements, NEW m \in DOMAIN artifact[r],
               NEW j \in DOMAIN artifact[s], artifact'[r][m].file = artifact'[s][j].file
        PROVE  Path(r, m) = Path(s, j)
    <3>1. CASE r = q /\ m = n
      BY <1>1, <1>7, <2>2, <3>1
    <3>2. CASE s = q /\ j = n
      BY <1>1, <1>7, <2>2, <3>2
    <3>3. CASE ~(r = q /\ m = n) /\ ~(s = q /\ j = n)
      BY <1>t, <1>1, <2>2, <3>3 DEF FileInv
    <3> QED
      BY <3>1, <3>2, <3>3
  <2>3. ASSUME NEW r \in Statements, NEW s \in Statements, NEW m \in DOMAIN artifact'[r],
               NEW j \in DOMAIN artifact'[s], artifact'[r][m].file = artifact'[s][j].file
        PROVE  Path(r, m)' = Path(s, j)'
    BY <1>1, <1>5, <2>2, <2>3
  <2> QED
    BY <2>1, <2>3 DEF FileInv
<1>11. IntactInv'
  <2> SUFFICES ASSUME NEW r \in Statements, r \notin ended, NEW m \in DOMAIN artifact[r],
                      artifact'[r][m].at \in InUsePoints, ~Shared(r, m)'
               PROVE  Intact(r, m)'
    BY <1>1 DEF IntactInv
  <2>0. ~Shared(r, m) /\ Path(r, m)' = Path(r, m)
    BY <1>5
  <2>1. CASE r = q /\ m = n
    <3>1. b.at # "gone" /\ Intact(q, n)
      BY <1>t, <1>1, <2>0, <2>1 DEF IntactInv, InUsePoints
    <3>2. /\ dir' = dir /\ outstanding' = outstanding /\ artifact'[q][n] = b
          /\ b.file = artifact[q][n].file /\ b.total = artifact[q][n].total
          /\ b.at # "writing" /\ b.pos < b.total
      BY <1>1, <1>3, <2>0, <2>1, <3>1 DEF Intact
    <3> QED
      BY <2>0, <2>1, <3>1, <3>2 DEF Intact
  <2>2. CASE ~(r = q /\ m = n)
    <3>1. Path(r, m) # Path(q, n)
      BY <2>0, <2>2, PathsMeet
    <3>2. artifact'[r][m] = artifact[r][m] /\ Intact(r, m)
      BY <1>t, <1>1, <2>0, <2>2 DEF IntactInv
    <3>3. /\ Path(r, m) \in DOMAIN dir' /\ dir'[Path(r, m)] = artifact[r][m].file
          /\ Path(r, m) \in outstanding'[r]
      BY <1>2, <1>3, <3>1, <3>2 DEF Intact
    <3> QED
      BY <2>0, <3>2, <3>3 DEF Intact
  <2> QED
    BY <2>1, <2>2
<1>12. KnownInv'
  <2> SUFFICES ASSUME NEW r \in Statements, NEW m \in DOMAIN artifact[r], ~Shared(r, m),
                      Path(r, m) \in outstanding'[r]
               PROVE  Path(r, m) \in DOMAIN dir'
    BY <1>1, <1>5 DEF KnownInv
  <2>1. Path(r, m) \in DOMAIN dir
    BY <1>t, <1>2 DEF KnownInv
  <2>2. CASE Path(r, m) = Path(q, n)
    <3>1. r = q /\ m = n
      BY <2>2, PathsMeet
    <3> QED
      BY <1>3, <2>1, <3>1
  <2>3. CASE Path(r, m) # Path(q, n)
    BY <1>3, <2>1, <2>3
  <2> QED
    BY <2>2, <2>3
<1>13. SpillsRemoved'
  <2> SUFFICES ASSUME spillFaults' = 0, NEW r \in Statements, Alone(r), NEW m \in DOMAIN artifact[r],
                      Path(r, m) \in DOMAIN dir'
               PROVE  r \notin ended /\ Path(r, m) \in outstanding'[r]
    BY <1>1, <1>5 DEF SpillsRemoved
  <2>1. r \notin ended /\ Path(r, m) \in outstanding[r]
    BY <1>t, <1>3, <1>4 DEF SpillsRemoved
  <2> QED
    BY <1>2, <1>3, <2>1
<1> QED
  BY <1>6, <1>8, <1>9, <1>10, <1>11, <1>12, <1>13 DEF SpillInv

\* A batch goes to the end of the file its writer holds.
LEMMA AppendStep ==
  ASSUME SpillInv, NEW q \in Statements, NEW n \in DOMAIN artifact[q], AppendBatch(q, n)
  PROVE  SpillInv'
<1>t. SpillTypes /\ PathInv /\ FileInv /\ IntactInv /\ KnownInv /\ SpillsRemoved /\ SpillsOwned
  BY DEF SpillInv
<1> PICK a : a = artifact[q][n]
  OBVIOUS
<1> PICK k : k = a.total + 1
  OBVIOUS
<1> PICK b : b = [label |-> a.label, at |-> "writing", file |-> a.file, pos |-> a.pos, total |-> k]
  OBVIOUS
<1>1. /\ a \in Artifacts /\ a.label \in Labels /\ a.file \in Nat /\ a.pos \in Nat /\ a.total \in Nat
      /\ a = [label |-> a.label, at |-> a.at, file |-> a.file, pos |-> a.pos, total |-> a.total]
  <2>1. artifact[q] \in Seq(Artifacts)
    BY <1>t DEF SpillTypes
  <2>2. a \in Artifacts
    BY <2>1
  <2> QED
    BY <2>2 DEF Artifacts
<1>2. /\ q \notin ended /\ a.at = "writing"
      /\ artifact' = [artifact EXCEPT ![q] = [artifact[q] EXCEPT ![n] = [a EXCEPT !.total = k]]]
      /\ body' = [body EXCEPT ![a.file] = Append(@, <<q, n, artifact'[q][n].total>>)]
      /\ UNCHANGED <<dir, outstanding, ended, spillFaults, misread>>
  BY DEF AppendBatch, Live
<1>3. b \in Artifacts /\ [a EXCEPT !.total = k] = b /\ b.label = a.label /\ b.file = a.file
  BY <1>1, <1>2 DEF Artifacts, InUsePoints
<1>4. /\ artifact' \in [Statements -> Seq(Artifacts)]
      /\ \A r \in Statements : DOMAIN artifact'[r] = DOMAIN artifact[r]
      /\ artifact'[q][n] = b
      /\ \A r \in Statements : \A m \in DOMAIN artifact[r] :
           ~(r = q /\ m = n) => artifact'[r][m] = artifact[r][m]
      /\ Kept
  BY <1>t, <1>2, <1>3, ArtifactChanged
<1>5. /\ \A r \in Statements : \A m \in DOMAIN artifact[r] :
           Path(r, m)' = Path(r, m) /\ (Shared(r, m) => Shared(r, m)')
      /\ \A r \in Statements : Alone(r)' => Alone(r)
  BY <1>4, SharedStays
<1>6. SpillsOwned' /\ \A w \in misread' : \E r \in Statements : \E m \in DOMAIN artifact'[r] : w = <<r, m>>
  BY <1>2, <1>4, OwnedStep
<1> PICK f : f = a.file
  OBVIOUS
<1>x. PICK x : x = <<q, n, k>>
  OBVIOUS
<1>d. PICK d : d = body[f]
  OBVIOUS
<1>c. PICK c : c = Append(d, x)
  OBVIOUS
<1>7. body \in Seq(Seq(Batches)) /\ f \in DOMAIN body /\ d \in Seq(Batches)
  <2>1. body \in Seq(Seq(Batches)) /\ f \in DOMAIN body
    BY <1>t DEF SpillTypes, FileInv
  <2> QED
    BY <1>d, <2>1
<1>8. /\ c \in Seq(Batches) /\ Len(d) \in Nat /\ Len(c) = Len(d) + 1 /\ c[Len(d) + 1] = x
      /\ \A i \in 1 .. Len(d) : c[i] = d[i]
  <2>1. x \in Batches
    <3>1. n \in Nat
      BY <1>t DEF SpillTypes
    <3> QED
      BY <1>1, <1>x, <3>1 DEF Batches
  <2> QED
    BY <1>c, <1>7, <2>1, Appended
<1>9. /\ body' \in Seq(Seq(Batches)) /\ DOMAIN body' = DOMAIN body /\ body'[f] = c
      /\ \A i \in DOMAIN body : i # f => body'[i] = body[i]
  <2>1. body' = [body EXCEPT ![f] = c]
    <3>1. artifact'[q][n].total = k
      BY <1>4
    <3>2. body' = [body EXCEPT ![f] = Append(body[f], <<q, n, k>>)]
      BY <1>2, <3>1
    <3> QED
      BY <3>2, <1>x, <1>d, <1>c
  <2> QED
    BY <1>7, <1>8, <2>1, Replaced
<1>10. SpillTypes'
  BY <1>t, <1>2, <1>4, <1>6, <1>9 DEF SpillTypes
<1>11. \A r \in Statements : \A m \in DOMAIN artifact[r] : artifact'[r][m].file = artifact[r][m].file
  BY <1>3, <1>4
<1>12. PathInv'
  <2>1. ASSUME NEW p \in DOMAIN dir
        PROVE  \E r \in Statements : \E m \in DOMAIN artifact'[r] :
                 p = Path(r, m)' /\ dir[p] = artifact'[r][m].file
    <3>1. PICK r \in Statements : \E m \in DOMAIN artifact[r] :
                                    p = Path(r, m) /\ dir[p] = artifact[r][m].file
      BY <1>t, <2>1 DEF PathInv
    <3>2. PICK m \in DOMAIN artifact[r] : p = Path(r, m) /\ dir[p] = artifact[r][m].file
      BY <3>1
    <3>3. m \in DOMAIN artifact'[r] /\ p = Path(r, m)' /\ dir[p] = artifact'[r][m].file
      BY <1>4, <1>5, <1>11, <3>2
    <3> QED
      BY <3>3
  <2>2. \A r \in Statements : \A p \in outstanding[r] : \E m \in DOMAIN artifact'[r] : p = Path(r, m)'
    BY <1>t, <1>4, <1>5 DEF PathInv
  <2> QED
    BY <1>2, <2>1, <2>2 DEF PathInv
<1>13. FileInv'
  <2>1. ASSUME NEW r \in Statements, NEW m \in DOMAIN artifact'[r]
        PROVE  artifact'[r][m].file \in DOMAIN body'
    <3>1. m \in DOMAIN artifact[r] /\ artifact'[r][m].file = artifact[r][m].file
      BY <1>4, <1>11
    <3>2. artifact[r][m].file \in DOMAIN body
      BY <1>t, <3>1 DEF FileInv
    <3> QED
      BY <1>9, <3>1, <3>2
  <2>2. ASSUME NEW r \in Statements, NEW s \in Statements, NEW m \in DOMAIN artifact'[r],
               NEW j \in DOMAIN artifact'[s], artifact'[r][m].file = artifact'[s][j].file
        PROVE  Path(r, m)' = Path(s, j)'
    BY <1>t, <1>4, <1>5, <1>11, <2>2 DEF FileInv
  <2> QED
    BY <2>1, <2>2 DEF FileInv
<1>14. IntactInv'
  <2> SUFFICES ASSUME NEW r \in Statements, r \notin ended, NEW m \in DOMAIN artifact[r],
                      artifact'[r][m].at \in InUsePoints, ~Shared(r, m)'
               PROVE  Intact(r, m)'
    BY <1>2, <1>4 DEF IntactInv
  <2>0. ~Shared(r, m) /\ Path(r, m)' = Path(r, m)
    BY <1>5
  <2>1. CASE r = q /\ m = n
    <3>0. Intact(q, n)
      BY <1>t, <1>2, <2>0, <2>1 DEF IntactInv, InUsePoints
    <3>1. Len(d) = a.total /\ k = Len(d) + 1 /\ \A i \in 1 .. k : i \in 1 .. a.total \/ i = k
      BY <1>1, <1>d, <3>0 DEF Intact
    <3>2. \A i \in 1 .. a.total : d[i] = <<q, n, i>>
      BY <1>d, <3>0 DEF Intact
    <3>3. Len(c) = k /\ \A i \in 1 .. k : c[i] = <<q, n, i>>
      BY <1>8, <1>x, <3>1, <3>2
    <3>4. Path(q, n) \in DOMAIN dir /\ dir[Path(q, n)] = a.file /\ Path(q, n) \in outstanding[q] /\ a.pos = 0
      BY <1>2, <3>0 DEF Intact
    <3>5. b.at = "writing" /\ b.file = f /\ b.pos = a.pos /\ b.total = k
      OBVIOUS
    <3>6. artifact'[q][n] = b /\ body'[b.file] = c /\ dir' = dir /\ outstanding' = outstanding
      BY <1>2, <1>4, <1>9, <3>5
    <3>7. Len(body'[b.file]) = b.total /\ \A i \in 1 .. b.total : body'[b.file][i] = <<q, n, i>>
      BY <3>3, <3>5, <3>6
    <3>8. b.at = "writing" /\ b.pos = 0 /\ dir[Path(q, n)] = b.file
      BY <3>4, <3>5
    <3> QED
      BY <2>0, <2>1, <3>4, <3>6, <3>7, <3>8 DEF Intact
  <2>2. CASE ~(r = q /\ m = n)
    <3>1. artifact'[r][m] = artifact[r][m] /\ Intact(r, m)
      BY <1>t, <1>4, <2>0, <2>2 DEF IntactInv
    <3>2. artifact[r][m].file \in DOMAIN body /\ artifact[r][m].file # f
      <4>1. Path(r, m) # Path(q, n)
        BY <2>0, <2>2, PathsMeet
      <4>2. artifact[r][m].file \in DOMAIN body
        BY <1>t DEF FileInv
      <4>3. artifact[r][m].file # artifact[q][n].file
        BY <1>t, <4>1 DEF FileInv
      <4> QED
        BY <4>2, <4>3
    <3>3. body'[artifact[r][m].file] = body[artifact[r][m].file] /\ dir' = dir /\ outstanding' = outstanding
      BY <1>2, <1>9, <3>2
    <3> QED
      BY <2>0, <3>1, <3>3 DEF Intact
  <2> QED
    BY <2>1, <2>2
<1>15. KnownInv'
  <2> SUFFICES ASSUME NEW r \in Statements, NEW m \in DOMAIN artifact[r], ~Shared(r, m),
                      Path(r, m) \in outstanding[r]
               PROVE  Path(r, m) \in DOMAIN dir
    BY <1>2, <1>4, <1>5 DEF KnownInv
  <2> QED
    BY <1>t DEF KnownInv
<1>16. SpillsRemoved'
  <2> SUFFICES ASSUME spillFaults = 0, NEW r \in Statements, Alone(r), NEW m \in DOMAIN artifact[r],
                      Path(r, m) \in DOMAIN dir
               PROVE  r \notin ended /\ Path(r, m) \in outstanding[r]
    BY <1>2, <1>4, <1>5 DEF SpillsRemoved
  <2> QED
    BY <1>t DEF SpillsRemoved
<1> QED
  BY <1>6, <1>10, <1>12, <1>13, <1>14, <1>15, <1>16 DEF SpillInv

\* cleanup() removes what is outstanding, or fails and leaves some of it.
LEMMA CleanupStep ==
  ASSUME SpillInv, NEW q \in Statements, Cleanup(q)
  PROVE  SpillInv'
<1>t. SpillTypes /\ PathInv /\ FileInv /\ IntactInv /\ KnownInv /\ SpillsRemoved /\ SpillsOwned
  BY DEF SpillInv
<1>1. ended' = ended \cup {q} /\ body' = body /\ artifact' = artifact /\ misread' = misread
  BY DEF Cleanup
<1>2. PICK left \in SUBSET outstanding[q] :
        /\ outstanding[q] \ DOMAIN dir \subseteq left
        /\ IF left = {} \/ outstanding[q] \ DOMAIN dir # {} THEN UNCHANGED spillFaults ELSE Fault
        /\ outstanding' = [outstanding EXCEPT ![q] = left]
        /\ dir' = Removed(dir, outstanding[q] \ left)
  BY DEF Cleanup
<1>s. \A r \in Statements : \A n \in DOMAIN artifact[r] :
        Path(r, n)' = Path(r, n) /\ Shared(r, n)' = Shared(r, n) /\ Alone(r)' = Alone(r)
  BY <1>1 DEF Path, Shared, Alone
<1>3. spillFaults \in Nat /\ spillFaults' \in Nat /\ (spillFaults' = 0 => spillFaults = 0)
  BY <1>t, <1>2 DEF SpillTypes, Fault
<1>4. /\ DOMAIN outstanding' = Statements /\ outstanding'[q] = left
      /\ \A r \in Statements : r # q => outstanding'[r] = outstanding[r]
  BY <1>t, <1>2 DEF SpillTypes
<1>5. /\ \A p \in DOMAIN dir' : p \in DOMAIN dir /\ p \notin outstanding[q] \ left /\ dir'[p] = dir[p]
      /\ \A p \in DOMAIN dir : p \notin outstanding[q] \ left => p \in DOMAIN dir'
  BY <1>2 DEF Removed
<1>6. ASSUME NEW r \in Statements, r # q, NEW n \in DOMAIN artifact[r], ~Shared(r, n)
      PROVE  Path(r, n) \notin outstanding[q]
  BY <1>t, <1>6, PathsMeet DEF PathInv
<1>7. SpillTypes'
  BY <1>t, <1>1, <1>3, <1>4 DEF SpillTypes
<1>8. PathInv'
  <2>1. \A r \in Statements : \A p \in outstanding'[r] : p \in outstanding[r]
    BY <1>2, <1>4
  <2>2. \A p \in DOMAIN dir' : \E r \in Statements : \E n \in DOMAIN artifact'[r] :
          p = Path(r, n)' /\ dir'[p] = artifact'[r][n].file
    BY <1>t, <1>1, <1>5, <1>s DEF PathInv
  <2>3. \A r \in Statements : \A p \in outstanding'[r] : \E n \in DOMAIN artifact'[r] : p = Path(r, n)'
    BY <1>t, <1>1, <1>s, <2>1 DEF PathInv
  <2> QED
    BY <2>2, <2>3 DEF PathInv
<1>9. FileInv'
  BY <1>t, <1>1, <1>s DEF FileInv
<1>10. IntactInv'
  <2> SUFFICES ASSUME NEW r \in Statements, r \notin ended, r # q, NEW n \in DOMAIN artifact[r],
                      artifact[r][n].at \in InUsePoints, ~Shared(r, n)
               PROVE  Intact(r, n)'
    BY <1>1, <1>s DEF IntactInv
  <2>1. Intact(r, n)
    BY <1>t DEF IntactInv
  <2>2. Path(r, n) \notin outstanding[q]
    BY <1>6
  <2>3. /\ Path(r, n) \in DOMAIN dir' /\ dir'[Path(r, n)] = dir[Path(r, n)]
        /\ outstanding'[r] = outstanding[r]
    BY <1>4, <1>5, <2>1, <2>2 DEF Intact
  <2> QED
    BY <1>1, <1>s, <2>1, <2>3 DEF Intact
<1>11. KnownInv'
  <2> SUFFICES ASSUME NEW r \in Statements, NEW n \in DOMAIN artifact[r], ~Shared(r, n),
                      Path(r, n) \in outstanding'[r]
               PROVE  Path(r, n) \in DOMAIN dir'
    BY <1>1, <1>s DEF KnownInv
  <2>1. Path(r, n) \in outstanding[r] /\ Path(r, n) \in DOMAIN dir
    BY <1>t, <1>2, <1>4 DEF KnownInv
  <2>2. Path(r, n) \notin outstanding[q] \ left
    BY <1>4, <1>6
  <2> QED
    BY <1>5, <2>1, <2>2
<1>12. SpillsRemoved'
  <2> SUFFICES ASSUME spillFaults' = 0, NEW r \in Statements, Alone(r), NEW n \in DOMAIN artifact[r],
                      Path(r, n) \in DOMAIN dir'
               PROVE  r \notin ended' /\ Path(r, n) \in outstanding'[r]
    BY <1>1, <1>s DEF SpillsRemoved
  <2>1. Path(r, n) \in DOMAIN dir /\ Path(r, n) \notin outstanding[q] \ left /\ spillFaults = 0
    BY <1>3, <1>5
  <2>2. r \notin ended /\ Path(r, n) \in outstanding[r]
    BY <1>t, <2>1 DEF SpillsRemoved
  <2>3. CASE r = q
    <3>1. outstanding[q] \ DOMAIN dir = {}
      <4> SUFFICES ASSUME NEW p \in outstanding[q]
                   PROVE  p \in DOMAIN dir
        OBVIOUS
      <4>1. PICK m \in DOMAIN artifact[q] : p = Path(q, m)
        BY <1>t DEF PathInv
      <4>2. ~Shared(q, m)
        BY <2>3 DEF Alone
      <4> QED
        BY <1>t, <4>1, <4>2 DEF KnownInv
    <3>2. left = {}
      BY <1>2, <1>3, <3>1, <2>1 DEF Fault
    <3> QED
      BY <2>1, <2>2, <2>3, <3>2
  <2>4. CASE r # q
    BY <1>1, <1>4, <2>2, <2>4
  <2> QED
    BY <2>3, <2>4
<1>13. SpillsOwned'
  <2>1. Kept
    BY <1>1 DEF Kept
  <2> QED
    BY <1>1, <2>1, OwnedStep
<1> QED
  BY <1>7, <1>8, <1>9, <1>10, <1>11, <1>12, <1>13 DEF SpillInv

\* openWriter() and spill().
LEMMA OpenSteps ==
  ASSUME SpillInv, NEW q \in Statements, NEW l \in Labels,
         OpenWriter(q, l) \/ Spill(q, l) \/ SpillFails(q, l)
  PROVE  SpillInv'
<1>0. NewFile(q, l) \in Nat /\ Len(artifact[q]) + 1 \in Nat
  <2>1. SpillTypes /\ PathInv /\ FileInv
    BY DEF SpillInv
  <2>2. \A p \in DOMAIN dir : dir[p] \in DOMAIN body
    BY <2>1 DEF PathInv, FileInv
  <2>3. DOMAIN body \subseteq Nat /\ Len(body) + 1 \in Nat /\ Len(artifact[q]) + 1 \in Nat
    BY <2>1 DEF SpillTypes
  <2> QED
    BY <2>2, <2>3 DEF NewFile
<1>1. CASE OpenWriter(q, l)
  <2>1. <<>> \in Seq(Batches) /\ Len(<<>>) = 0
    OBVIOUS
  <2>a. PICK a : a = [label |-> l, at |-> "writing", file |-> NewFile(q, l), pos |-> 0, total |-> 0]
    OBVIOUS
  <2>2. Artifact(l, "writing", NewFile(q, l)) = a
    BY <2>a DEF Artifact
  <2>3. /\ a \in Artifacts /\ a.label = l /\ a.at = "writing" /\ a.file = NewFile(q, l)
        /\ a.pos = 0 /\ a.total = 0
    BY <1>0, <2>a DEF Artifacts, InUsePoints
  <2>4. /\ q \notin ended /\ Opened(q, l, <<>>)
        /\ artifact' = [artifact EXCEPT ![q] = Append(@, a)]
        /\ outstanding' = [outstanding EXCEPT ![q] = @ \cup {NewPath(q, l)}]
        /\ UNCHANGED <<ended, spillFaults, misread>>
    BY <1>1, <2>2 DEF OpenWriter, MayOpen
  <2>s. PICK s : s = <<>>
    OBVIOUS
  <2>5. /\ s \in Seq(Batches) /\ Opened(q, l, s) /\ a.total = Len(s)
        /\ \A i \in 1 .. Len(s) : s[i] = <<q, Len(artifact[q]) + 1, i>>
    BY <2>1, <2>3, <2>4, <2>s
  <2> QED
    BY <2>3, <2>4, <2>5, OpenStep
<1>2. CASE SpillFails(q, l)
  <2>1. <<>> \in Seq(Batches)
    OBVIOUS
  <2>a. PICK a : a = [label |-> l, at |-> "gone", file |-> NewFile(q, l), pos |-> 0, total |-> 0]
    OBVIOUS
  <2>2. Artifact(l, "gone", NewFile(q, l)) = a
    BY <2>a DEF Artifact
  <2>3. a \in Artifacts /\ a.label = l /\ a.at = "gone" /\ a.file = NewFile(q, l) /\ a.at \notin InUsePoints
    BY <1>0, <2>a DEF Artifacts, InUsePoints
  <2>4. /\ q \notin ended /\ Opened(q, l, <<>>) /\ spillFaults' = spillFaults + 1
        /\ artifact' = [artifact EXCEPT ![q] = Append(@, a)]
        /\ UNCHANGED <<outstanding, ended, misread>>
    BY <1>2, <2>2 DEF SpillFails, MayOpen, Fault
  <2> QED
    BY <2>1, <2>3, <2>4, OpenStep
<1>3. CASE Spill(q, l)
  <2>1. PICK k \in 1 .. MaxRows :
          /\ Opened(q, l, [i \in 1 .. k |-> <<q, Len(artifact[q]) + 1, i>>])
          /\ artifact' = [artifact EXCEPT ![q] =
                            Append(@, [Artifact(l, "finished", NewFile(q, l)) EXCEPT !.total = k])]
    BY <1>3 DEF Spill
  <2>2. k \in Nat \ {0}
    OBVIOUS
  <2>s. PICK s : s = [i \in 1 .. k |-> <<q, Len(artifact[q]) + 1, i>>]
    OBVIOUS
  <2>3. s \in Seq(Batches) /\ Len(s) = k /\ \A i \in 1 .. k : s[i] = <<q, Len(artifact[q]) + 1, i>>
    BY <1>0, <2>2, <2>s DEF Batches
  <2>a. PICK a : a = [label |-> l, at |-> "finished", file |-> NewFile(q, l), pos |-> 0, total |-> k]
    OBVIOUS
  <2>4. [Artifact(l, "finished", NewFile(q, l)) EXCEPT !.total = k] = a
    BY <2>a DEF Artifact
  <2>5. /\ a \in Artifacts /\ a.label = l /\ a.at = "finished" /\ a.file = NewFile(q, l)
        /\ a.pos = 0 /\ a.total = k
    BY <1>0, <2>2, <2>a DEF Artifacts, InUsePoints
  <2>6. /\ q \notin ended /\ Opened(q, l, s)
        /\ artifact' = [artifact EXCEPT ![q] = Append(@, a)]
        /\ outstanding' = [outstanding EXCEPT ![q] = @ \cup {NewPath(q, l)}]
        /\ UNCHANGED <<ended, spillFaults, misread>>
    BY <1>3, <2>1, <2>s, <2>4 DEF Spill, MayOpen
  <2>7. a.total = Len(s) /\ a.total > 0 /\ \A i \in 1 .. Len(s) : s[i] = <<q, Len(artifact[q]) + 1, i>>
    BY <2>2, <2>3, <2>5
  <2> QED
    BY <2>3, <2>5, <2>6, <2>7, OpenStep
<1> QED
  BY <1>1, <1>2, <1>3

\* The other steps of an artifact.
LEMMA ArtifactSteps ==
  ASSUME SpillInv, NEW q \in Statements, NEW n \in DOMAIN artifact[q],
         Finish(q, n) \/ Abort(q, n) \/ Read(q, n) \/ NextBatch(q, n) \/ RemoveFails(q, n) \/ Release(q, n)
  PROVE  SpillInv'
<1>t. SpillTypes /\ PathInv /\ FileInv /\ IntactInv
  BY DEF SpillInv
<1>a. PICK a : a = artifact[q][n]
  OBVIOUS
<1>p. PICK p : p = Path(q, n)
  OBVIOUS
<1>1. /\ a \in Artifacts /\ a.label \in Labels /\ a.file \in Nat /\ a.pos \in Nat /\ a.total \in Nat
      /\ a = [label |-> a.label, at |-> a.at, file |-> a.file, pos |-> a.pos, total |-> a.total]
  <2>1. artifact[q] \in Seq(Artifacts)
    BY <1>t DEF SpillTypes
  <2>2. a \in Artifacts
    BY <1>a, <2>1
  <2> QED
    BY <2>2 DEF Artifacts
<1>2. q \notin ended /\ a.at \in InUsePoints
  BY <1>a DEF Finish, Abort, Read, NextBatch, RemoveFails, Release, Live, InUsePoints
<1>3. ~Shared(q, n) =>
        /\ p \in DOMAIN dir /\ dir[p] = a.file /\ p \in outstanding[q]
        /\ Len(body[a.file]) = a.total /\ \A i \in 1 .. a.total : body[a.file][i] = <<q, n, i>>
        /\ a.at = "writing" => a.pos = 0
        /\ a.at \in {"finished", "reading"} => a.pos < a.total
  <2> SUFFICES ASSUME ~Shared(q, n)
               PROVE  /\ p \in DOMAIN dir /\ dir[p] = a.file /\ p \in outstanding[q]
                      /\ Len(body[a.file]) = a.total /\ \A i \in 1 .. a.total : body[a.file][i] = <<q, n, i>>
                      /\ a.at = "writing" => a.pos = 0
                      /\ a.at \in {"finished", "reading"} => a.pos < a.total
    OBVIOUS
  <2>1. Intact(q, n)
    BY <1>t, <1>a, <1>2 DEF IntactInv
  <2> QED
    BY <1>a, <1>p, <2>1 DEF Intact
<1>4. \A at \in InUsePoints \cup {"gone"}, file \in Nat, pos \in Nat, total \in Nat :
        [label |-> a.label, at |-> at, file |-> file, pos |-> pos, total |-> total] \in Artifacts
  BY <1>1 DEF Artifacts
<1>g. PICK g : g = Artifact(a.label, "gone", a.file)
  OBVIOUS
<1>5. /\ g \in Artifacts /\ g.label = artifact[q][n].label /\ g.file = artifact[q][n].file
      /\ g.at = "gone" /\ g.at \notin InUsePoints
  <2>1. g = [label |-> a.label, at |-> "gone", file |-> a.file, pos |-> 0, total |-> 0]
    BY <1>g DEF Artifact
  <2> QED
    BY <1>1, <1>4, <1>a, <2>1 DEF InUsePoints
<1>6. CASE Finish(q, n)
  <2>1. /\ a.at = "writing" /\ a.total > 0
        /\ artifact' = [artifact EXCEPT ![q] = [artifact[q] EXCEPT ![n] = [a EXCEPT !.at = "finished"]]]
        /\ UNCHANGED <<dir, body, outstanding, ended, spillFaults, misread>>
    BY <1>6, <1>a DEF Finish, Live
  <2>b. PICK b : b = [label |-> a.label, at |-> "finished", file |-> a.file, pos |-> a.pos, total |-> a.total]
    OBVIOUS
  <2>2. [a EXCEPT !.at = "finished"] = b
    BY <1>1, <2>b
  <2>3. /\ b \in Artifacts /\ b.label = a.label /\ b.file = a.file /\ b.total = a.total
        /\ b.at = "finished" /\ b.pos = a.pos
    BY <1>1, <1>4, <2>b DEF InUsePoints
  <2>4. ~Shared(q, n) => b.pos < b.total
    BY <1>1, <1>3, <2>1, <2>3
  <2> QED
    BY <1>a, <1>2, <2>1, <2>2, <2>3, <2>4, ChangeStep
<1>7. CASE Abort(q, n) \/ Release(q, n)
  <2>1. /\ artifact' = [artifact EXCEPT ![q] = [artifact[q] EXCEPT ![n] = g]]
        /\ RemovePath(q, Path(q, n))
        /\ UNCHANGED <<body, ended, spillFaults, misread>>
    BY <1>7, <1>a, <1>g DEF Abort, Release
  <2> QED
    BY <1>a, <1>2, <1>5, <2>1, ChangeStep
<1>8. CASE RemoveFails(q, n)
  <2>1. /\ artifact' = [artifact EXCEPT ![q] = [artifact[q] EXCEPT ![n] = g]]
        /\ spillFaults' = spillFaults + 1
        /\ UNCHANGED <<dir, outstanding, body, ended, misread>>
    BY <1>8, <1>a, <1>g DEF RemoveFails, Fault
  <2> QED
    BY <1>a, <1>2, <1>5, <2>1, ChangeStep
<1>9. CASE Read(q, n)
  <2>w. PICK whole : whole = (p \in outstanding[q] /\ p \in DOMAIN dir /\ Len(body[dir[p]]) = a.total)
    OBVIOUS
  <2>1. /\ a.at = "finished" /\ UNCHANGED <<dir, body, outstanding, ended, spillFaults>>
        /\ misread' = IF whole THEN misread ELSE misread \cup {<<q, n>>}
    BY <1>9, <1>a, <1>p, <2>w DEF Read, Live
  <2>2. ~Shared(q, n) => whole /\ dir[p] = a.file
    BY <1>3, <2>w
  <2>3. misread' = misread \/ (Shared(q, n) /\ misread' = misread \cup {<<q, n>>})
    BY <2>1, <2>2
  <2>4. CASE p \in DOMAIN dir /\ artifact' = [artifact EXCEPT ![q][n] =
               [label |-> a.label, at |-> "reading", file |-> dir[p], pos |-> a.pos,
                total |-> Len(body[dir[p]])]]
    <3>b. PICK b : b = [label |-> a.label, at |-> "reading", file |-> dir[p], pos |-> a.pos,
                        total |-> Len(body[dir[p]])]
      OBVIOUS
    <3>1. artifact' = [artifact EXCEPT ![q] = [artifact[q] EXCEPT ![n] = b]]
      BY <2>4, <3>b
    <3>2. dir[p] \in Nat /\ Len(body[dir[p]]) \in Nat
      <4>1. dir[p] \in DOMAIN body
        BY <1>t, <2>4 DEF PathInv, FileInv
      <4>2. body \in Seq(Seq(Batches)) /\ body[dir[p]] \in Seq(Batches) /\ dir[p] \in Nat
        BY <1>t, <4>1 DEF SpillTypes
      <4> QED
        BY <4>2
    <3>3. /\ b \in Artifacts /\ b.label = a.label /\ b.file = dir[p] /\ b.at = "reading"
          /\ b.pos = a.pos /\ b.total = Len(body[dir[p]])
      BY <1>1, <1>4, <3>2, <3>b DEF InUsePoints
    <3>4. ~Shared(q, n) => b.total = a.total /\ b.pos < b.total
      BY <1>3, <2>1, <2>2, <3>3
    <3>5. /\ artifact[q][n].at \in InUsePoints /\ b.label = artifact[q][n].label
          /\ Path(q, n) \in DOMAIN dir /\ b.file = dir[Path(q, n)]
          /\ b.at \in InUsePoints /\ ~Shared(q, n) =>
               b.total = artifact[q][n].total /\ b.at # "writing" /\ b.pos < b.total
      BY <1>a, <1>p, <1>2, <2>4, <3>3, <3>4
    <3>6. /\ UNCHANGED <<dir, outstanding>> /\ spillFaults' = spillFaults
          /\ body' = body /\ ended' = ended
      BY <2>1
    <3> QED
      BY <1>2, <2>3, <3>1, <3>3, <3>5, <3>6, ChangeStep
  <2>5. CASE artifact' = [artifact EXCEPT ![q][n] = Artifact(@.label, "gone", @.file)]
    <3>1. artifact' = [artifact EXCEPT ![q] = [artifact[q] EXCEPT ![n] = g]]
      BY <2>5, <1>a, <1>g
    <3> QED
      BY <1>a, <1>2, <1>5, <2>1, <2>3, <3>1, ChangeStep
  <2> QED
    BY <1>9, <1>a, <1>p, <2>4, <2>5 DEF Read
<1>10. CASE NextBatch(q, n)
  <2>k. PICK k : k = a.pos + 1
    OBVIOUS
  <2>1. a.at = "reading" /\ k \in Nat
    BY <1>1, <1>10, <1>a, <2>k DEF NextBatch, Live
  <2>2. UNCHANGED <<body, ended, spillFaults>>
    BY <1>10 DEF NextBatch
  <2>3. misread' = misread \/ (Shared(q, n) /\ misread' = misread \cup {<<q, n>>})
    <3>1. misread' = IF /\ k \in DOMAIN body[a.file] /\ body[a.file][k] = <<q, n, k>>
                        /\ k = a.total => p \in DOMAIN dir
                     THEN misread ELSE misread \cup {<<q, n>>}
      BY <1>10, <1>a, <1>p, <2>k DEF NextBatch
    <3>2. ASSUME ~Shared(q, n)
          PROVE  /\ k \in DOMAIN body[a.file] /\ body[a.file][k] = <<q, n, k>>
                 /\ k = a.total => p \in DOMAIN dir
      <4>1. body[a.file] \in Seq(Batches)
        BY <1>t, <1>a DEF SpillTypes, FileInv
      <4>2. k \in 1 .. a.total
        BY <1>1, <1>3, <2>k, <2>1, <3>2
      <4> QED
        BY <1>3, <3>2, <4>1, <4>2
    <3> QED
      BY <3>1, <3>2
  <2>4. CASE k < a.total
    <3>b. PICK b : b = [label |-> a.label, at |-> "reading", file |-> a.file, pos |-> k, total |-> a.total]
      OBVIOUS
    <3>1. [a EXCEPT !.pos = k] = b
      BY <1>1, <2>1, <3>b
    <3>2. artifact' = [artifact EXCEPT ![q] = [artifact[q] EXCEPT ![n] = b]] /\ UNCHANGED <<dir, outstanding>>
      BY <1>10, <1>a, <2>k, <2>4, <3>1 DEF NextBatch
    <3>3. /\ b \in Artifacts /\ b.label = a.label /\ b.file = a.file /\ b.total = a.total
          /\ b.at = "reading" /\ b.pos < b.total
      BY <1>1, <1>4, <2>1, <2>4, <3>b DEF InUsePoints
    <3> QED
      BY <1>a, <1>2, <2>2, <2>3, <3>2, <3>3, ChangeStep
  <2>5. CASE ~(k < a.total)
    <3>1. /\ artifact' = [artifact EXCEPT ![q] = [artifact[q] EXCEPT ![n] = g]]
          /\ RemovePath(q, Path(q, n))
      BY <1>10, <1>a, <1>g, <2>k, <2>5 DEF NextBatch
    <3> QED
      BY <1>a, <1>2, <1>5, <2>2, <2>3, <3>1, ChangeStep
  <2> QED
    BY <2>4, <2>5
<1> QED
  BY <1>6, <1>7, <1>8, <1>9, <1>10

\* A SpillReader returns, in order, the batches its SpillWriter appended unless
\* another statement used the same path, and a statement that shares no path
\* and ends without a failing file operation leaves no spill file behind, for
\* any statements and labels, every number of artifacts and batches and any
\* overlap of the statements.
THEOREM SpillsAreSound == SpillSpec => []SpillsSound
<1>1. SpillInit => SpillInv
  BY SpillInitHolds
<1>2. SpillInv /\ [SpillNext]_spillVars => SpillInv'
  <2> SUFFICES ASSUME SpillInv, [SpillNext]_spillVars
               PROVE  SpillInv'
    OBVIOUS
  <2>1. CASE UNCHANGED spillVars
    <3>1. /\ dir' = dir /\ body' = body /\ artifact' = artifact /\ outstanding' = outstanding
          /\ ended' = ended /\ spillFaults' = spillFaults /\ misread' = misread
      BY <2>1 DEF spillVars
    <3>2. SpillTypes' /\ PathInv' /\ FileInv'
      BY <3>1 DEF SpillInv, SpillTypes, PathInv, FileInv, Path
    <3>3. IntactInv' /\ KnownInv'
      BY <3>1 DEF SpillInv, IntactInv, Intact, KnownInv, Shared, Path
    <3>4. SpillsRemoved' /\ SpillsOwned'
      BY <3>1 DEF SpillInv, SpillsRemoved, SpillsOwned, Alone, Shared, Path
    <3> QED
      BY <3>2, <3>3, <3>4 DEF SpillInv
  <2>2. ASSUME NEW q \in Statements, NEW l \in Labels, OpenWriter(q, l) \/ Spill(q, l) \/ SpillFails(q, l)
        PROVE  SpillInv'
    BY <2>2, OpenSteps
  <2>3. ASSUME NEW q \in Statements, Cleanup(q)
        PROVE  SpillInv'
    BY <2>3, CleanupStep
  <2>4. ASSUME NEW q \in Statements, NEW n \in DOMAIN artifact[q], AppendBatch(q, n)
        PROVE  SpillInv'
    BY <2>4, AppendStep
  <2>5. ASSUME NEW q \in Statements, NEW n \in DOMAIN artifact[q],
               \/ Finish(q, n) \/ Abort(q, n) \/ Read(q, n) \/ NextBatch(q, n)
               \/ RemoveFails(q, n) \/ Release(q, n)
        PROVE  SpillInv'
    BY <2>5, ArtifactSteps
  <2> QED
    BY <2>1, <2>2, <2>3, <2>4, <2>5 DEF SpillNext
<1>3. SpillInv => SpillsSound
  BY DEF SpillInv, SpillsSound
<1> QED
  BY <1>1, <1>2, <1>3, PTL DEF SpillSpec
=============================================================================
